---- MODULE Spec2Model ----
(***************************************************************************)
(* A model of netanalysis.ooni.data.ooni_client (the OONI measurement      *)
(* archive client), of the superseded helpers of netanalysis.ooni.bucket,  *)
(* of the thread pool of netanalysis.ooni.data.fetch_measurements, of      *)
(* Measurement.get (netanalysis.ooni.measurement), of the AS repository of *)
(* netanalysis.ip.simple_autonomous_system, of the DNS Evaluator of        *)
(* netanalysis.ooni.analysis.dns and of atop_n over                        *)
(* ApiOoniClient.list_measurements (netanalysis.ooni.fetch_measurements,   *)
(* netanalysis.ooni.ooni_client).                                          *)
(*                                                                         *)
(* Strings are sequences of one-character strings, so that basename,       *)
(* split('-') and replace('_', '') are computed character by character.    *)
(***************************************************************************)
EXTENDS Integers, Sequences, FiniteSets, TLC

VARIABLES
    fm,      \* filename matching: the call's arguments and its results
    plan,    \* segment planning over a frame list: frames, fi, segments
    parse,   \* _files_from_index over a line stream: its locals and its output
    req,            \* the arguments of OoniClient.list_files and the consumer's plan
    store,          \* the content of the two S3 buckets (unchanged throughout)
    legacy_client,  \* _LegacyOoniClient: num_get_requests, num_list_requests, bytes_downloaded
    new_client,     \* _2020OoniClient: the same three counters
    legacy_gen,     \* the frame of the generator _LegacyOoniClient.list_files
    new_gen,        \* the frame of the generator _2020OoniClient.list_files
    list_gen,       \* the generator OoniClient.list_files: "created", "running",
                    \* "suspended" (at a yield) or "returned"
    entries,        \* the FileEntry objects yielded so far, in order
    mats,           \* the generators made by calls of FileEntry.get_measurements
    workers,        \* the ThreadPool threads of fetch_measurements.main running fetch_file
    meas,           \* a Measurement, the arguments of a call of get and its result
    as_repo,        \* an InMemoryAsRepository and the results of the calls on it
    evaluator,      \* a dns.Evaluator and the results of the calls on it
    sync,           \* bucket.sync_measurements: downloaded_bytes, the local store, the threads
    topn            \* atop_n over an iterator: the items requested and yielded

toolVars == <<sync, topn>>
libVars == <<workers, meas, as_repo, evaluator, toolVars>>
pureVars == <<fm, plan, parse, libVars>>
clientVars == <<req, store, legacy_client, new_client, legacy_gen, new_gen, list_gen,
                entries, mats>>
vars == <<fm, plan, parse, req, store, legacy_client, new_client, legacy_gen, new_gen,
          list_gen, entries, mats, libVars>>

\* The state of the parts no operation is running on.
ToolIdle == sync = <<>> /\ topn = <<>>
LibIdle == workers = <<>> /\ meas = <<>> /\ as_repo = <<>> /\ evaluator = <<>> /\ ToolIdle

(***************************************************************************)
(* Small helpers over sequences.                                           *)
(***************************************************************************)
RECURSIVE SeqsUpTo(_, _)
SeqsUpTo(S, n) ==
    IF n = 0 THEN {<<>>}
    ELSE LET shorter == SeqsUpTo(S, n - 1)
         IN  shorter \cup {Append(s, x) : s \in {t \in shorter : Len(t) = n - 1}, x \in S}

RECURSIVE SumSeq(_)
SumSeq(s) == IF s = <<>> THEN 0 ELSE Head(s) + SumSeq(Tail(s))

RECURSIVE Flatten(_)
Flatten(ss) == IF ss = <<>> THEN <<>> ELSE Head(ss) \o Flatten(Tail(ss))

(***************************************************************************)
(* String functions of the Python library the code calls.                  *)
(***************************************************************************)
\* str.split(sep): the fields between the occurrences of sep (never empty).
RECURSIVE split(_, _)
split(s, sep) ==
    IF \A i \in 1..Len(s) : s[i] # sep THEN <<s>>
    ELSE LET i == CHOOSE k \in 1..Len(s) :
                      s[k] = sep /\ \A j \in 1..(k - 1) : s[j] # sep
         IN  <<SubSeq(s, 1, i - 1)>> \o split(SubSeq(s, i + 1, Len(s)), sep)

\* str.replace(old, ''): every occurrence of the character old removed.
RECURSIVE replace(_, _)
replace(s, old) ==
    IF s = <<>> THEN <<>>
    ELSE (IF Head(s) = old THEN <<>> ELSE <<Head(s)>>) \o replace(Tail(s), old)

\* posixpath.basename: what follows the last '/'.
basename(p) ==
    LET slashes == {i \in 1..Len(p) : p[i] = "/"}
    IN  IF slashes = {} THEN p
        ELSE SubSeq(p, (CHOOSE i \in slashes : \A j \in slashes : j <= i) + 1, Len(p))

(***************************************************************************)
(* _LegacyOoniClient._test_type_for_match and _filename_matches, and the   *)
(* superseded bucket.filename_matches.                                     *)
(***************************************************************************)
test_type_for_match(measurement_type) == replace(measurement_type, "_")

\* Mutant: the country is read from field 0 instead of field 1.
Legacy_filename_matches_Field0(filename, test_type, country) ==
    LET parts == split(basename(filename), "-")
    IN  IF Len(parts) < 4 THEN FALSE
        ELSE parts[1] = country /\ test_type_for_match(parts[4]) = test_type

Legacy_filename_matches(filename, test_type, country) ==
    LET parts == split(basename(filename), "-")
    IN  IF Len(parts) < 4 THEN FALSE
        ELSE parts[2] = country /\ test_type_for_match(parts[4]) = test_type

filename_matches(filename, measurement_type, country) ==
    LET parts == split(basename(filename), "-")
    IN  IF Len(parts) < 4 THEN FALSE
        ELSE parts[2] = country /\ parts[4] = measurement_type

(***************************************************************************)
(* Inputs of the filename matching check.                                  *)
(***************************************************************************)
MaxFields == 4

BR == <<"B", "R">>
AR == <<"A", "R">>
KZ == <<"K", "Z">>
webconnectivity == <<"w", "c">>
webconnectivity2 == <<"w", "c", "2">>
web_connectivity == <<"w", "_", "c">>

NameFields == {<<"x">>, BR, AR, web_connectivity, webconnectivity, webconnectivity2}
DirPrefixes == {<<>>, <<"a", "-", "b", "/">>}
TestTypes == {webconnectivity, webconnectivity2, web_connectivity}
Countries == {BR, AR}

RECURSIVE JoinDash(_)
JoinDash(fields) ==
    IF Len(fields) = 1 THEN fields[1]
    ELSE fields[1] \o <<"-">> \o JoinDash(Tail(fields))

Filenames ==
    {d \o JoinDash(fs) : d \in DirPrefixes,
                         fs \in (SeqsUpTo(NameFields, MaxFields) \ {<<>>})}

\* A result not yet computed; a computed result r is <<r>>.
NoResult == <<>>

FmIdle == [filename |-> <<>>, test_type |-> <<>>, country |-> <<>>,
           legacy |-> NoResult, bucket |-> NoResult]

FmInit ==
    fm \in [filename : Filenames, test_type : TestTypes, country : Countries,
            legacy : {NoResult}, bucket : {NoResult}]

CallLegacyFilenameMatches ==
    /\ fm.legacy = NoResult
    /\ fm' = [fm EXCEPT !.legacy =
                 <<Legacy_filename_matches(fm.filename, fm.test_type, fm.country)>>]
    /\ UNCHANGED <<plan, parse, clientVars, libVars>>

CallBucketFilenameMatches ==
    /\ fm.bucket = NoResult
    /\ fm' = [fm EXCEPT !.bucket =
                 <<filename_matches(fm.filename, fm.test_type, fm.country)>>]
    /\ UNCHANGED <<plan, parse, clientVars, libVars>>

(***************************************************************************)
(* Segment planning: the loop of _LegacyOoniClient._get_measurements that  *)
(* merges adjacent frames (lines 221-230).                                 *)
(***************************************************************************)
\* The inner while loop: extend the segment while the next frame starts at
\* segment_end.
RECURSIVE ExtendSegment(_, _, _)
ExtendSegment(frames, fi, seg) ==
    IF fi <= Len(frames) /\ frames[fi].file_off = seg.segment_end
    THEN ExtendSegment(frames, fi + 1,
                       [seg EXCEPT !.segment_end = @ + frames[fi].file_size,
                                   !.segment = Append(@, frames[fi])])
    ELSE [seg EXCEPT !.fi = fi]

\* Mutant: every frame is its own segment (no merging).
NextSegment_NoMerge(frames, fi) ==
    [segment_start |-> frames[fi].file_off,
     segment_end |-> frames[fi].file_off + frames[fi].file_size,
     segment |-> <<frames[fi]>>, fi |-> fi + 1]

\* Mutant: the first frame of a segment is passed over, not appended.
NextSegment_FirstFrameLeftOut(frames, fi) ==
    ExtendSegment(frames, fi + 1,
                  [segment_start |-> frames[fi].file_off,
                   segment_end |-> frames[fi].file_off + frames[fi].file_size,
                   segment |-> <<>>, fi |-> fi + 1])

\* One iteration of the outer loop, for 1 <= fi <= Len(frames) (fi is the
\* 1-based index of the next frame): the segment built and the next fi.
NextSegment(frames, fi) ==
    ExtendSegment(frames, fi,
                  [segment_start |-> frames[fi].file_off,
                   segment_end |-> frames[fi].file_off,
                   segment |-> <<>>, fi |-> fi])

MaxPlanFrames == 3
MaxFileOff == 4
MaxFileSize == 2

PlanFrames == [file_off : 0..MaxFileOff, file_size : 0..MaxFileSize]

PlanIdle == [frames |-> <<>>, fi |-> 1, segments |-> <<>>]

PlanInit ==
    plan \in [frames : SeqsUpTo(PlanFrames, MaxPlanFrames), fi : {1}, segments : {<<>>}]

PlanDone == plan.fi > Len(plan.frames)

PlanSegment ==
    /\ ~PlanDone
    /\ LET s == NextSegment(plan.frames, plan.fi)
       IN  plan' = [plan EXCEPT !.fi = s.fi,
                                !.segments = Append(@, [segment_start |-> s.segment_start,
                                                        segment_end |-> s.segment_end,
                                                        segment |-> s.segment])]
    /\ UNCHANGED <<fm, parse, clientVars, libVars>>

(***************************************************************************)
(* The segment planning of netanalysis.ooni.bucket.list_files_with_index   *)
(* (bucket.py lines 116-135), which _LegacyOoniClient._get_measurements    *)
(* superseded.                                                             *)
(***************************************************************************)
\* The inner while loop (lines 122-128): extend the segment while the next
\* frame starts at next_frame_pos.
RECURSIVE BucketExtendSegment(_, _, _)
BucketExtendSegment(frames, fi, seg) ==
    IF fi <= Len(frames) /\ frames[fi].file_off = seg.next_frame_pos
    THEN BucketExtendSegment(frames, fi + 1,
                             [seg EXCEPT !.next_frame_pos = @ + frames[fi].file_size,
                                         !.segment = Append(@, frames[fi])])
    ELSE [seg EXCEPT !.fi = fi]

\* Mutant: segment_end is the last frame's offset, its size left out.
BucketSegmentBounds_EndWithoutSize(segment) ==
    [segment_start |-> segment[1].file_off,
     segment_end |-> segment[Len(segment)].file_off]

\* Lines 129-130: the bounds are read off the first and the last frame.
BucketSegmentBounds(segment) ==
    [segment_start |-> segment[1].file_off,
     segment_end |-> segment[Len(segment)].file_off + segment[Len(segment)].file_size]

\* One iteration of the outer loop (lines 119-135), for 1 <= fi <= Len(frames):
\* the segment, its bounds, the Range of its get_object and the next fi.
BucketNextSegment(frames, fi) ==
    LET seg == BucketExtendSegment(frames, fi,
                   [next_frame_pos |-> frames[fi].file_off, segment |-> <<>>, fi |-> fi])
        b == BucketSegmentBounds(seg.segment)
    IN  [segment_start |-> b.segment_start, segment_end |-> b.segment_end,
         segment |-> seg.segment, fi |-> seg.fi,
         Range |-> <<b.segment_start, b.segment_end - 1>>]

\* Both planners started on one frame list.
PlanBothInit ==
    plan \in [frames : SeqsUpTo(PlanFrames, MaxPlanFrames), fi : {1}, segments : {<<>>},
              bucket_fi : {1}, bucket_segments : {<<>>}, bucket_ranges : {<<>>}]

BucketPlanDone == plan.bucket_fi > Len(plan.frames)

BucketPlanSegment ==
    /\ ~BucketPlanDone
    /\ LET s == BucketNextSegment(plan.frames, plan.bucket_fi)
       IN  plan' = [plan EXCEPT !.bucket_fi = s.fi,
                                !.bucket_segments =
                                    Append(@, [segment_start |-> s.segment_start,
                                               segment_end |-> s.segment_end,
                                               segment |-> s.segment]),
                                !.bucket_ranges = Append(@, s.Range)]
    /\ UNCHANGED <<fm, parse, clientVars, libVars>>

(***************************************************************************)
(* _LegacyOoniClient._files_from_index (lines 141-175).                    *)
(*                                                                         *)
(* A Python dict is a function from its keys; {} is the empty function.    *)
(* A line is [json |-> "invalid"] (ujson.loads raises) or                  *)
(* [json |-> "ok", entry |-> dict].                                        *)
(***************************************************************************)
EmptyDict == <<>>
HasKey(d, k) == k \in DOMAIN d
\* dict.get(k, default)
DictGet(d, k, default) == IF HasKey(d, k) THEN d[k] ELSE default
\* d[k] = v
DictSet(d, k, v) == [x \in DOMAIN d \cup {k} |-> IF x = k THEN v ELSE d[x]]

ParserStart ==
    [current_file |-> EmptyDict, current_frame |-> EmptyDict,
     output_measurements |-> FALSE,
     yielded |-> <<>>,        \* the files yielded so far, in order
     status |-> "running",    \* "running", "raised" (an exception left the generator), "returned"
     last |-> EmptyDict,      \* the entry of the line processed last
     report |-> NoResult,     \* <<textname>> of the report line processed last
     file_open |-> FALSE,     \* a file line was processed and no /file line since
     frame_open |-> FALSE,    \* a frame line was processed and no /frame line since
     n |-> 0]                 \* lines consumed

Raise(st) == [st EXCEPT !.status = "raised"]

\* Mutant: '/frame' attaches the frame whether or not it holds data.
FrameEndLine_KeepEmpty(st) ==
    IF HasKey(st.current_frame, "data")
    THEN IF ~HasKey(st.current_file, "frames") THEN Raise(st)
         ELSE [st EXCEPT !.current_file = DictSet(@, "frames",
                                              Append(@.frames, st.current_frame)),
                         !.current_frame = EmptyDict]
    ELSE st

\* elif entry['type'] == '/frame' (lines 169-172)
FrameEndLine(st) ==
    IF Len(DictGet(st.current_frame, "data", <<>>)) > 0
    THEN IF ~HasKey(st.current_file, "frames") THEN Raise(st)    \* KeyError
         ELSE [st EXCEPT !.current_file = DictSet(@, "frames",
                                              Append(@.frames, st.current_frame)),
                         !.current_frame = EmptyDict]
    ELSE st

\* elif entry['type'] == '/file' (lines 156-159)
FileEndLine(st) ==
    IF Len(DictGet(st.current_file, "frames", <<>>)) > 0
    THEN [st EXCEPT !.yielded = Append(@, st.current_file), !.current_file = EmptyDict]
    ELSE [st EXCEPT !.current_file = EmptyDict]

\* elif entry['type'] == 'report' (lines 160-163)
ReportLine(st, entry, test_type, country) ==
    IF ~HasKey(entry, "textname") THEN Raise(st)                 \* KeyError
    ELSE IF Legacy_filename_matches(entry.textname, test_type, country)
         THEN [st EXCEPT !.output_measurements = TRUE]
         ELSE st

\* elif entry['type'] == 'datum' (lines 173-175)
DatumLine(st, entry) ==
    IF st.output_measurements
    THEN IF ~HasKey(st.current_frame, "data") THEN Raise(st)     \* KeyError
         ELSE [st EXCEPT !.current_frame = DictSet(@, "data", Append(@.data, entry))]
    ELSE st

\* The body of the for loop (lines 152-175) for one line.
ParseLine(st, line, test_type, country) ==
    IF line.json = "invalid"                                     \* ujson.loads raises
    THEN Raise([st EXCEPT !.n = @ + 1, !.last = EmptyDict])
    ELSE
    LET entry == line.entry
        s0 == [st EXCEPT !.n = @ + 1, !.last = entry,
                         !.report = IF HasKey(entry, "type") /\ entry.type = "report"
                                       /\ HasKey(entry, "textname")
                                    THEN <<entry.textname>> ELSE @,
                         !.file_open = IF ~HasKey(entry, "type") THEN @
                                       ELSE IF entry.type = "file" THEN TRUE
                                       ELSE IF entry.type = "/file" THEN FALSE ELSE @,
                         !.frame_open = IF ~HasKey(entry, "type") THEN @
                                        ELSE IF entry.type = "frame" THEN TRUE
                                        ELSE IF entry.type = "/frame" THEN FALSE ELSE @]
    IN  IF ~HasKey(entry, "type") THEN Raise(s0)                 \* KeyError
        ELSE CASE entry.type = "file" ->
                    [s0 EXCEPT !.current_file = DictSet(entry, "frames", <<>>)]
               [] entry.type = "/file" -> FileEndLine(s0)
               [] entry.type = "report" -> ReportLine(s0, entry, test_type, country)
               [] entry.type = "/report" -> [s0 EXCEPT !.output_measurements = FALSE]
               [] entry.type = "frame" ->
                    [s0 EXCEPT !.current_frame = DictSet(entry, "data", <<>>)]
               [] entry.type = "/frame" -> FrameEndLine(s0)
               [] entry.type = "datum" -> DatumLine(s0, entry)
               [] OTHER -> s0

(***************************************************************************)
(* The parser fed an arbitrary line stream, one line at a time.            *)
(***************************************************************************)
MaxLines == 9

QueryTestType == webconnectivity
QueryCountry == KZ

MatchingName == JoinDash(<<<<"x">>, KZ, <<"x">>, web_connectivity>>)
OtherCountryName == JoinDash(<<<<"x">>, AR, <<"x">>, web_connectivity>>)

Ok(entry) == [json |-> "ok", entry |-> entry]

ArbitraryLines ==
    {Ok([type |-> "file", filename |-> "f1"]),
     Ok([type |-> "/file"]),
     Ok([type |-> "report", textname |-> MatchingName]),
     Ok([type |-> "report", textname |-> OtherCountryName]),
     Ok([type |-> "/report"]),
     Ok([type |-> "frame", file_off |-> 0, file_size |-> 1000]),
     Ok([type |-> "frame", file_off |-> 1000, file_size |-> 1000]),
     Ok([type |-> "/frame"]),
     Ok([type |-> "datum", text_off |-> 0, text_size |-> 2]),
     Ok([type |-> "datum", text_off |-> 3, text_size |-> 1]),
     Ok([type |-> "badge"]),
     Ok([filename |-> "f1"]),
     [json |-> "invalid"]}

ParseIdle == ParserStart

ParseNextLine ==
    /\ parse.status = "running"
    /\ parse.n < MaxLines
    /\ \E line \in ArbitraryLines :
           parse' = ParseLine(parse, line, QueryTestType, QueryCountry)
    /\ UNCHANGED <<fm, plan, clientVars, libVars>>

\* The line stream ends: the generator returns.
ParseEndOfStream ==
    /\ parse.status = "running"
    /\ parse' = [parse EXCEPT !.status = "returned"]
    /\ UNCHANGED <<fm, plan, clientVars, libVars>>

(***************************************************************************)
(* The S3 store the client reads.                                          *)
(*                                                                         *)
(* Dates are the integers YYYYMMDD, which order as the dates do.           *)
(* An archive file of the legacy bucket is a sequence of LZ4 frames; every *)
(* frame holds records (data), each after hdr bytes of other text (a tar   *)
(* header). A datum is "kept" when its report's name matches the query.    *)
(* The index of a date directory lists its files: frame lines carry        *)
(* file_off, file_size and the frame's text_off, text_size; datum lines    *)
(* carry text_off, text_size, both relative to the file's decompressed     *)
(* text (https://ooni.org/post/mining-ooni-data/, cited at line 143).      *)
(***************************************************************************)
LegacyLastDate == 20201021     \* dt.date(2020, 10, 21)
NewFirstDate == 20201020       \* dt.date(2020, 10, 20)
FrameFileSize == 1000
RecordTextSize == 2

ReportName(kept) == IF kept THEN MatchingName ELSE OtherCountryName

\* The lines of the data of one frame; cur is the kind of the report that is
\* open ("none", TRUE or FALSE as a string), text_off the text position.
RECURSIVE DataLines(_, _, _, _, _)
DataLines(data, j, text_off, hdr, cur) ==
    IF j > Len(data) THEN [lines |-> <<>>, text_off |-> text_off, cur |-> cur]
    ELSE LET d == data[j]
             want == IF d.kept THEN "matching" ELSE "other"
             switch == IF cur = want THEN <<>>
                       ELSE (IF cur = "none" THEN <<>> ELSE <<Ok([type |-> "/report"])>>)
                            \o <<Ok([type |-> "report", textname |-> ReportName(d.kept)])>>
             line == Ok([type |-> "datum", text_off |-> text_off + hdr,
                         text_size |-> d.text_size])
             rest == DataLines(data, j + 1, text_off + hdr + d.text_size, hdr, want)
         IN  [lines |-> switch \o <<line>> \o rest.lines,
              text_off |-> rest.text_off, cur |-> rest.cur]

RECURSIVE FrameLines(_, _, _, _, _, _)
FrameLines(frames, i, file_off, text_off, hdr, cur) ==
    IF i > Len(frames)
    THEN IF cur = "none" THEN <<>> ELSE <<Ok([type |-> "/report"])>>
    ELSE LET dl == DataLines(frames[i].data, 1, text_off, hdr, cur)
         IN  <<Ok([type |-> "frame", file_off |-> file_off,
                   file_size |-> frames[i].file_size,
                   text_off |-> text_off, text_size |-> dl.text_off - text_off])>>
             \o dl.lines \o <<Ok([type |-> "/frame"])>>
             \o FrameLines(frames, i + 1, file_off + frames[i].file_size,
                           dl.text_off, hdr, dl.cur)

\* The index lines of one archive file.
FileLines(file) ==
    <<Ok([type |-> "file", filename |-> file.filename])>>
    \o FrameLines(file.frames, 1, 0, 0, file.hdr, "none")
    \o <<Ok([type |-> "/file"])>>

\* index.json.gz of a date directory, decompressed.
IndexLines(dir) == Flatten([i \in 1..Len(dir.files) |-> FileLines(dir.files[i])])
\* Its ContentLength (sizes of compressed indices are not modelled further).
IndexContentLength(dir) == Len(IndexLines(dir))

IsFrameLine(line) == line.entry.type = "frame"
IsDatumLine(line) == line.entry.type = "datum"
\* The LZ4 frames of an archive file, as laid out in the object.
PhysFrames(file) ==
    LET fl == SelectSeq(FileLines(file), IsFrameLine)
    IN  [i \in 1..Len(fl) |-> fl[i].entry]
\* The extents [from, to) of the records in the file's decompressed text.
RecordExtents(file) ==
    LET dl == SelectSeq(FileLines(file), IsDatumLine)
    IN  {<<dl[i].entry.text_off, dl[i].entry.text_off + dl[i].entry.text_size>> :
             i \in 1..Len(dl)}

AllLegacyFiles(st) ==
    UNION {{st.legacy[i].files[j] : j \in 1..Len(st.legacy[i].files)} :
               i \in 1..Len(st.legacy)}
PhysFile(st, filename) == CHOOSE f \in AllLegacyFiles(st) : f.filename = filename

\* get_object(Key = file, Range = start-(end - 1)) wrapped in LZ4FrameFile:
\* the text of the frames stored at [start, end), a part [lo, hi) of the
\* file's text; bytes that are not whole frames do not decode.
SegmentStream(file, start, end) ==
    LET pf == PhysFrames(file)
        first == {i \in 1..Len(pf) : pf[i].file_off = start}
        last == {i \in 1..Len(pf) : pf[i].file_off + pf[i].file_size = end}
    IN  IF first = {} \/ last = {} \/ end <= start
        THEN [valid |-> FALSE, lo |-> 0, hi |-> 0]
        ELSE LET a == CHOOSE i \in first : TRUE
                 b == CHOOSE i \in last : TRUE
             IN  [valid |-> TRUE, lo |-> pf[a].text_off,
                  hi |-> pf[b].text_off + pf[b].text_size]

\* Paginated list_objects_v2 with Delimiter '/': the date directories after
\* StartAfter = prefix + first_date, in key order, PageSize to a page; an
\* empty listing is one empty page.
PageSize == 2

RECURSIVE Chunks(_, _)
Chunks(s, n) ==
    IF Len(s) <= n THEN <<s>>
    ELSE <<SubSeq(s, 1, n)>> \o Chunks(SubSeq(s, n + 1, Len(s)), n)
\* Mutant: the listing starts at the first key, whatever StartAfter is.
ListingPages_NoStartAfter(dirs, first_date) == Chunks(dirs, PageSize)

ListingPages(dirs, first_date) ==
    Chunks(SelectSeq(dirs, LAMBDA dir : dir.date >= first_date), PageSize)

(***************************************************************************)
(* _LegacyOoniClient.list_files (lines 192-208), a generator, with         *)
(* _list_files_with_index (lines 210-216).                                 *)
(***************************************************************************)
ClientStart == [num_get_requests |-> 0, num_list_requests |-> 0, bytes_downloaded |-> 0]

LegacyGenStart ==
    [pc |-> "start",            \* "start", "pages", "dirs", "index", "returned"
     page |-> 0,                \* pages fetched from the paginator
     di |-> 0,                  \* CommonPrefixes of the page already taken
     date |-> 0,
     li |-> 0,                  \* index lines already read
     ps |-> ParserStart,        \* the frame of _files_from_index
     file_entry |-> EmptyDict,  \* the loop variable file_entry
     list_calls |-> 0,          \* list_objects_v2 requests issued, failed ones included
     get_calls |-> 0]           \* get_object requests issued, failed ones included

LegacyPages == ListingPages(store.legacy, req.first_date)

\* _frame_bytes (lines 177-182)
RECURSIVE frame_bytes(_)
frame_bytes(frames) ==
    IF frames = <<>> THEN 0 ELSE Head(frames).file_size + frame_bytes(Tail(frames))

\* Run _files_from_index from line i + 1 to its next yield, or to the end.
RECURSIVE ParseUntilYield(_, _, _)
ParseUntilYield(st, lines, i) ==
    IF i >= Len(lines) THEN [st |-> st, li |-> i, kind |-> "end"]
    ELSE LET s1 == ParseLine(st, lines[i + 1], QueryTestType, QueryCountry)
         IN  IF s1.status = "raised" THEN [st |-> s1, li |-> i + 1, kind |-> "raised"]
             ELSE IF Len(s1.yielded) > Len(st.yielded)
                  THEN [st |-> s1, li |-> i + 1, kind |-> "yield"]
                  ELSE ParseUntilYield(s1, lines, i + 1)

\* Lines 193-197.
LegacyListStart ==
    /\ list_gen = "running"
    /\ legacy_gen.pc = "start"
    /\ legacy_gen' = [legacy_gen EXCEPT
                          !.pc = IF req.first_date > LegacyLastDate
                                 THEN "returned" ELSE "pages"]
    /\ UNCHANGED <<pureVars, req, store, legacy_client, new_client, new_gen, entries, mats, list_gen>>

\* for page in pages: self.num_list_requests += 1 (lines 198-199).
LegacyFetchPage ==
    /\ list_gen = "running"
    /\ legacy_gen.pc = "pages"
    /\ IF legacy_gen.page < Len(LegacyPages)
       THEN /\ legacy_gen' = [legacy_gen EXCEPT !.page = @ + 1, !.di = 0, !.pc = "dirs",
                                                !.list_calls = @ + 1]
            /\ legacy_client' = [legacy_client EXCEPT !.num_list_requests = @ + 1]
       ELSE /\ legacy_gen' = [legacy_gen EXCEPT !.pc = "returned"]
            /\ UNCHANGED legacy_client
    /\ UNCHANGED <<pureVars, req, store, new_client, new_gen, entries, mats, list_gen>>

\* for entry in page.get('CommonPrefixes', []) (lines 200-205), then the
\* get_object of _list_files_with_index (lines 211-214).
LegacyNextDir ==
    /\ list_gen = "running"
    /\ legacy_gen.pc = "dirs"
    /\ LET prefixes == LegacyPages[legacy_gen.page]
       IN  IF legacy_gen.di >= Len(prefixes)
           THEN /\ legacy_gen' = [legacy_gen EXCEPT !.pc = "pages"]
                /\ UNCHANGED legacy_client
           ELSE LET dir == prefixes[legacy_gen.di + 1]
                IN  IF dir.date > req.last_date
                    THEN /\ legacy_gen' = [legacy_gen EXCEPT !.pc = "returned",
                                                             !.date = dir.date]
                         /\ UNCHANGED legacy_client
                    ELSE /\ legacy_gen' = [legacy_gen EXCEPT
                                               !.pc = "index", !.di = @ + 1,
                                               !.date = dir.date, !.li = 0,
                                               !.ps = ParserStart, !.get_calls = @ + 1]
                         /\ legacy_client' = [legacy_client EXCEPT
                                !.num_get_requests = @ + 1,
                                !.bytes_downloaded = @ + IndexContentLength(dir)]
    /\ UNCHANGED <<pureVars, req, store, new_client, new_gen, entries, mats, list_gen>>

CurrentLegacyDir == LegacyPages[legacy_gen.page][legacy_gen.di]

\* The FileEntry of line 208. get_measurements is a lambda closing over the
\* generator's variable file_entry: it names the client whose cell it reads.
\* own is what the entry was made for (bookkeeping, not a field).
LegacyFileEntry(file_entry, date) ==
    [get_measurements |-> "legacy",
     test_type |-> QueryTestType, country |-> QueryCountry, date |-> date,
     url |-> [netloc |-> "ooni-data", path |-> file_entry.filename],
     size |-> frame_bytes(file_entry.frames),
     own |-> file_entry]

\* for file_entry in self._list_files_with_index(...): yield FileEntry(...)
LegacyYieldFile ==
    /\ list_gen = "running"
    /\ legacy_gen.pc = "index"
    /\ LET r == ParseUntilYield(legacy_gen.ps, IndexLines(CurrentLegacyDir), legacy_gen.li)
       IN  /\ r.kind = "yield"
           /\ LET file_entry == r.st.yielded[Len(r.st.yielded)]
              IN  /\ legacy_gen' = [legacy_gen EXCEPT !.ps = r.st, !.li = r.li,
                                                      !.file_entry = file_entry]
                  /\ entries' = Append(entries, LegacyFileEntry(file_entry, legacy_gen.date))
    /\ UNCHANGED <<pureVars, req, store, legacy_client, new_client, new_gen, mats>>
    /\ list_gen' = "suspended"

\* The index is exhausted: back to the loop over the page's directories.
LegacyIndexEnd ==
    /\ list_gen = "running"
    /\ legacy_gen.pc = "index"
    /\ LET r == ParseUntilYield(legacy_gen.ps, IndexLines(CurrentLegacyDir), legacy_gen.li)
       IN  /\ r.kind = "end"
           /\ legacy_gen' = [legacy_gen EXCEPT !.ps = r.st, !.li = r.li, !.pc = "dirs"]
    /\ UNCHANGED <<pureVars, req, store, legacy_client, new_client, new_gen, entries, mats, list_gen>>

(***************************************************************************)
(* _2020OoniClient.list_files (lines 86-113), a generator.                 *)
(*                                                                         *)
(* An object of the new bucket has the key                                 *)
(* raw/<date>/<hour>/<country>/<test_type>/<stem><ext>; the listing of one *)
(* hour prefix fits one page.                                              *)
(***************************************************************************)
HoursPerDay == 24

NewGenStart ==
    [pc |-> "start",      \* "start", "pages", "dirs", "hours", "contents", "returned"
     page |-> 0, di |-> 0, date |-> 0, hour |-> 0,
     ci |-> 0,            \* Contents of the hour's page already taken
     url |-> EmptyDict]   \* the variable url

NewPages == ListingPages(store.new, req.first_date)
CurrentNewDir == NewPages[new_gen.page][new_gen.di]

ObjectKey(dir, o) ==
    [date |-> dir.date, hour |-> o.hour, country |-> o.country,
     test_type |-> o.test_type, stem |-> o.stem, ext |-> o.ext]

\* paginate(Prefix = <date_dir><hour>/<country>/[<test_type>/]): the Contents.
HourContents(dir, hour, test_type, country) ==
    SelectSeq(dir.objects,
              LAMBDA o : /\ o.hour = hour
                         /\ o.country = country
                         /\ test_type # <<>> => o.test_type = test_type)

\* Lines 87-91.
NewListStart ==
    /\ list_gen = "running"
    /\ legacy_gen.pc = "returned"      \* yield from legacy, then yield from new
    /\ new_gen.pc = "start"
    /\ new_gen' = [new_gen EXCEPT
                       !.pc = IF req.last_date < NewFirstDate THEN "returned" ELSE "pages"]
    /\ UNCHANGED <<pureVars, req, store, legacy_client, new_client, legacy_gen, entries, mats>>
    /\ list_gen' = IF new_gen'.pc = "returned" THEN "returned" ELSE "running"

\* for page in pages: self.num_list_requests += 1 (lines 92-93).
NewFetchPage ==
    /\ list_gen = "running"
    /\ new_gen.pc = "pages"
    /\ IF new_gen.page < Len(NewPages)
       THEN /\ new_gen' = [new_gen EXCEPT !.page = @ + 1, !.di = 0, !.pc = "dirs"]
            /\ new_client' = [new_client EXCEPT !.num_list_requests = @ + 1]
       ELSE /\ new_gen' = [new_gen EXCEPT !.pc = "returned"]
            /\ UNCHANGED new_client
    /\ list_gen' = IF new_gen'.pc = "returned" THEN "returned" ELSE "running"
    /\ UNCHANGED <<pureVars, req, store, legacy_client, legacy_gen, entries, mats>>

\* for entry in page.get('CommonPrefixes', []) (lines 94-99).
NewNextDir ==
    /\ list_gen = "running"
    /\ new_gen.pc = "dirs"
    /\ LET prefixes == NewPages[new_gen.page]
       IN  IF new_gen.di >= Len(prefixes)
           THEN new_gen' = [new_gen EXCEPT !.pc = "pages"]
           ELSE LET dir == prefixes[new_gen.di + 1]
                IN  IF dir.date > req.last_date
                    THEN new_gen' = [new_gen EXCEPT !.pc = "returned", !.date = dir.date]
                    ELSE new_gen' = [new_gen EXCEPT !.pc = "hours", !.di = @ + 1,
                                                    !.date = dir.date, !.hour = 0]
    /\ UNCHANGED <<pureVars, req, store, legacy_client, new_client, legacy_gen, entries, mats>>
    /\ list_gen' = IF new_gen'.pc = "returned" THEN "returned" ELSE "running"

\* The first hour from h on whose prefix holds objects, or HoursPerDay.
RECURSIVE FirstHourWithContents(_, _)
FirstHourWithContents(dir, h) ==
    IF h >= HoursPerDay \/ HourContents(dir, h, QueryTestType, QueryCountry) # <<>> THEN h
    ELSE FirstHourWithContents(dir, h + 1)

\* for hour in range(24): one page of the hour's prefix (lines 100-105); the
\* hours whose page has no Contents are passed in one step, one list request
\* each.
NewListHour ==
    /\ list_gen = "running"
    /\ new_gen.pc = "hours"
    /\ new_gen.hour < HoursPerDay
    /\ LET h == FirstHourWithContents(CurrentNewDir, new_gen.hour)
       IN  IF h >= HoursPerDay
           THEN /\ new_client' = [new_client EXCEPT
                                      !.num_list_requests = @ + (h - new_gen.hour)]
                /\ new_gen' = [new_gen EXCEPT !.hour = h]
           ELSE /\ new_client' = [new_client EXCEPT
                                      !.num_list_requests = @ + (h - new_gen.hour) + 1]
                /\ new_gen' = [new_gen EXCEPT !.hour = h, !.pc = "contents", !.ci = 0]
    /\ UNCHANGED <<pureVars, req, store, legacy_client, legacy_gen, entries, mats, list_gen>>

\* range(24) is exhausted.
NewHoursEnd ==
    /\ list_gen = "running"
    /\ new_gen.pc = "hours"
    /\ new_gen.hour >= HoursPerDay
    /\ new_gen' = [new_gen EXCEPT !.pc = "dirs"]
    /\ UNCHANGED <<pureVars, req, store, legacy_client, new_client, legacy_gen, entries, mats, list_gen>>

NewFileEntry(url, o, date) ==
    [get_measurements |-> "new",
     test_type |-> o.test_type, country |-> QueryCountry, date |-> date,
     url |-> url, size |-> o.size, own |-> url]

\* for entry in page.get('Contents', []) (lines 106-113).
NewNextContent ==
    /\ list_gen = "running"
    /\ new_gen.pc = "contents"
    /\ LET contents == HourContents(CurrentNewDir, new_gen.hour, QueryTestType, QueryCountry)
       IN  IF new_gen.ci >= Len(contents)
           THEN /\ new_gen' = [new_gen EXCEPT !.pc = "hours", !.hour = @ + 1]
                /\ UNCHANGED entries
           ELSE LET o == contents[new_gen.ci + 1]
                    url == [netloc |-> "ooni-data-eu-fra", path |-> ObjectKey(CurrentNewDir, o)]
                IN  IF o.ext = ".jsonl.gz"
                    THEN /\ new_gen' = [new_gen EXCEPT !.ci = @ + 1, !.url = url]
                         /\ entries' = Append(entries, NewFileEntry(url, o, new_gen.date))
                    ELSE /\ new_gen' = [new_gen EXCEPT !.ci = @ + 1]
                         /\ UNCHANGED entries
    /\ UNCHANGED <<pureVars, req, store, legacy_client, new_client, legacy_gen, mats>>
    /\ list_gen' = IF entries' # entries THEN "suspended" ELSE "running"

(***************************************************************************)
(* FileEntry.get_measurements(): the lambda of line 208 or 113 reads the   *)
(* listing generator's variable when it is called, and makes a generator   *)
(* (_get_measurements) that has not started to run.                        *)
(***************************************************************************)
NoStream == [valid |-> FALSE, lo |-> 0, hi |-> 0]

\* Mutant: _get_measurements fetches the object when it is called, before
\* the generator it returns is advanced.
GetMeasurementsGenerator_Eager(e, client, arg) ==
    [entry |-> e, client |-> client, arg |-> arg, pc |-> "created", fi |-> 1,
     data |-> <<>>, k |-> 0, bytes_read |-> 0, stream |-> NoStream, pos |-> 0,
     records |-> <<>>,
     gets |-> <<[Bucket |-> client, Key |-> arg, Range |-> <<>>]>>,
     bytes |-> 0]

\* Mutant: the generator accounts for the bytes of all the frames of its
\* file when it is made, not for each segment as its GET is issued.
GetMeasurementsGenerator_BytesUpFront(e, client, arg) ==
    [entry |-> e, client |-> client, arg |-> arg, pc |-> "created", fi |-> 1,
     data |-> <<>>, k |-> 0, bytes_read |-> 0, stream |-> NoStream, pos |-> 0,
     records |-> <<>>, gets |-> <<>>,
     bytes |-> IF client = "legacy" THEN frame_bytes(arg.frames) ELSE 0]

GetMeasurementsGenerator(e, client, arg) ==
    [entry |-> e,              \* the FileEntry whose get_measurements was called
     client |-> client, arg |-> arg,
     pc |-> "created",         \* "created", "running", "returned", "raised"
     fi |-> 1,                 \* the next frame (from 1)
     data |-> <<>>,            \* the data of the segment's frames, in order
     k |-> 0,                  \* data (or lines) of it already yielded
     bytes_read |-> 0,
     stream |-> NoStream,      \* the decompressed text the open stream holds
     pos |-> 0,                \* the stream's read position, in the file's text
     records |-> <<>>,         \* the measurements yielded so far
     gets |-> <<>>,            \* the get_object calls made so far
     bytes |-> 0]              \* what it added to bytes_downloaded

\* The argument the lambda passes: the generator's variable, as it is now.
BoundArgument(e) ==
    IF entries[e].get_measurements = "legacy" THEN legacy_gen.file_entry ELSE new_gen.url

CallGetMeasurements ==
    /\ list_gen # "running"
    /\ Len(mats) < req.max_mats
    /\ \E e \in 1..Len(entries) :
           mats' = Append(mats, GetMeasurementsGenerator(
                                    e, entries[e].get_measurements, BoundArgument(e)))
    /\ UNCHANGED <<pureVars, req, store, legacy_client, new_client, legacy_gen, new_gen, entries, list_gen>>

(***************************************************************************)
(* _LegacyOoniClient._get_measurements (lines 218-244).                    *)
(***************************************************************************)
SegmentData(segment) == Flatten([i \in 1..Len(segment) |-> segment[i].data])

\* The reads of lines 239-243 for one datum: the text [from, to) returned by
\* lz4_file.read(size = text_size), and the cursors after it. A read returns
\* what is left of the stream when less is left than asked.
Min(a, b) == IF a < b THEN a ELSE b
ReadDatum(m, entry) ==
    LET skip == entry.text_off - m.bytes_read
        from == IF skip > 0 THEN Min(m.pos + skip, m.stream.hi) ELSE m.pos
        to == Min(from + entry.text_size, m.stream.hi)
    IN  [from |-> from, to |-> to, bytes_read |-> entry.text_off + entry.text_size]

\* Lines 222-236: plan the next segment, get its bytes, open the stream.
MatNextSegment(i) ==
    LET m == mats[i]
        frames == m.arg.frames
    IN  /\ list_gen # "running"
        /\ m.client = "legacy"
        /\ m.pc \in {"created", "running"}
        /\ m.k >= Len(m.data)
        /\ m.fi <= Len(frames)
        /\ LET s == NextSegment(frames, m.fi)
               get == [Bucket |-> "ooni-data", Key |-> m.arg.filename,
                       Range |-> <<s.segment_start, s.segment_end - 1>>]
               stream == SegmentStream(PhysFile(store, m.arg.filename),
                                       s.segment_start, s.segment_end)
           IN  /\ mats' = [mats EXCEPT ![i] =
                     [m EXCEPT !.pc = "running", !.fi = s.fi,
                               !.data = SegmentData(s.segment), !.k = 0,
                               !.bytes_read = 0, !.stream = stream, !.pos = stream.lo,
                               !.gets = Append(@, get),
                               !.bytes = @ + (s.segment_end - s.segment_start)]]
               /\ legacy_client' = [legacy_client EXCEPT
                      !.num_get_requests = @ + 1,
                      !.bytes_downloaded = @ + (s.segment_end - s.segment_start)]
        /\ UNCHANGED <<pureVars, req, store, new_client, legacy_gen, new_gen, entries, list_gen>>

\* Whether ujson.loads parses the text [from, to) read from the file. The
\* records are JSON objects, each followed by a newline or a tar header, and a
\* read is as long as a record at most: text that is not exactly one record
\* (a shifted or a short read, the empty string at the end of the stream) is
\* no JSON value, and ujson.loads raises.
IsRecord(m, r) ==
    m.stream.valid /\ <<r.from, r.to>> \in RecordExtents(PhysFile(store, m.arg.filename))

\* Lines 238-244, the parse succeeding: the measurement is yielded.
MatYieldRecord(i) ==
    LET m == mats[i]
    IN  /\ list_gen # "running"
        /\ m.client = "legacy"
        /\ m.pc = "running"
        /\ m.k < Len(m.data)
        /\ LET r == ReadDatum(m, m.data[m.k + 1])
           IN  /\ IsRecord(m, r)
               /\ mats' = [mats EXCEPT ![i] =
                     [m EXCEPT !.k = @ + 1, !.pos = r.to, !.bytes_read = r.bytes_read,
                               !.records = Append(@, [file |-> m.arg.filename,
                                                      from |-> r.from, to |-> r.to])]]
        /\ UNCHANGED <<pureVars, req, store, legacy_client, new_client, legacy_gen, new_gen, entries, list_gen>>

\* Lines 238-244, the stream not decoding or the text read not parsing: the
\* exception leaves the generator.
MatDecodeError(i) ==
    LET m == mats[i]
    IN  /\ list_gen # "running"
        /\ m.client = "legacy"
        /\ m.pc = "running"
        /\ m.k < Len(m.data)
        /\ ~IsRecord(m, ReadDatum(m, m.data[m.k + 1]))
        /\ mats' = [mats EXCEPT ![i] = [m EXCEPT !.pc = "raised"]]
        /\ UNCHANGED <<pureVars, req, store, legacy_client, new_client, legacy_gen, new_gen, entries, list_gen>>

\* while fi < len(frames) is false: the generator returns.
MatReturn(i) ==
    LET m == mats[i]
    IN  /\ list_gen # "running"
        /\ m.client = "legacy"
        /\ m.pc \in {"created", "running"}
        /\ m.k >= Len(m.data)
        /\ m.fi > Len(m.arg.frames)
        /\ mats' = [mats EXCEPT ![i] = [m EXCEPT !.pc = "returned"]]
        /\ UNCHANGED <<pureVars, req, store, legacy_client, new_client, legacy_gen, new_gen, entries, list_gen>>

(***************************************************************************)
(* _2020OoniClient._get_measurements (lines 115-121).                      *)
(***************************************************************************)
AllNewObjects(st) ==
    UNION {{[key |-> ObjectKey(st.new[i], st.new[i].objects[j]), object |-> st.new[i].objects[j]] :
                j \in 1..Len(st.new[i].objects)} : i \in 1..Len(st.new)}
NewObject(st, key) == (CHOOSE x \in AllNewObjects(st) : x.key = key).object

\* Lines 116-118: the whole object is fetched.
MatGetObject(i) ==
    LET m == mats[i]
    IN  /\ list_gen # "running"
        /\ m.client = "new"
        /\ m.pc = "created"
        /\ LET o == NewObject(store, m.arg.path)
               get == [Bucket |-> m.arg.netloc, Key |-> m.arg.path, Range |-> <<>>]
           IN  /\ mats' = [mats EXCEPT ![i] =
                     [m EXCEPT !.pc = "running", !.k = 0, !.gets = Append(@, get),
                               !.bytes = @ + o.size]]
               /\ new_client' = [new_client EXCEPT
                      !.num_get_requests = @ + 1,
                      !.bytes_downloaded = @ + o.size]
        /\ UNCHANGED <<pureVars, req, store, legacy_client, legacy_gen, new_gen, entries, list_gen>>

\* Lines 120-121: one measurement per line of the decompressed object.
MatYieldLine(i) ==
    LET m == mats[i]
    IN  /\ list_gen # "running"
        /\ m.client = "new"
        /\ m.pc = "running"
        /\ m.k < NewObject(store, m.arg.path).nlines
        /\ mats' = [mats EXCEPT ![i] =
               [m EXCEPT !.k = @ + 1,
                         !.records = Append(@, [file |-> m.arg.path, line |-> m.k + 1])]]
        /\ UNCHANGED <<pureVars, req, store, legacy_client, new_client, legacy_gen, new_gen, entries, list_gen>>

MatNewReturn(i) ==
    LET m == mats[i]
    IN  /\ list_gen # "running"
        /\ m.client = "new"
        /\ m.pc = "running"
        /\ m.k >= NewObject(store, m.arg.path).nlines
        /\ mats' = [mats EXCEPT ![i] = [m EXCEPT !.pc = "returned"]]
        /\ UNCHANGED <<pureVars, req, store, legacy_client, new_client, legacy_gen, new_gen, entries, list_gen>>

(***************************************************************************)
(* Stores and requests the specifications start from.                      *)
(***************************************************************************)
MaxFrames == 3
MaxData == 2

DatumShapes == [text_size : {RecordTextSize}, kept : BOOLEAN]
FrameShapes(maxData) ==
    [file_size : {FrameFileSize}, data : SeqsUpTo(DatumShapes, maxData) \ {<<>>}]
ArchiveFiles(name, hdrs, maxFrames, maxData) ==
    [filename : {name}, hdr : hdrs,
     frames : SeqsUpTo(FrameShapes(maxData), maxFrames) \ {<<>>}]

ClientIdle ==
    /\ req = [first_date |-> 0, last_date |-> 0, max_mats |-> 0]
    /\ store = [legacy |-> <<>>, new |-> <<>>]
    /\ legacy_client = ClientStart
    /\ new_client = ClientStart
    /\ legacy_gen = LegacyGenStart
    /\ new_gen = NewGenStart
    /\ list_gen = "created"
    /\ entries = <<>>
    /\ mats = <<>>

PureIdle == fm = FmIdle /\ plan = PlanIdle /\ parse = ParseIdle /\ LibIdle

\* One archive file in one date directory, materialized once.
SpecFileInit ==
    /\ PureIdle
    /\ req = [first_date |-> 20201019, last_date |-> 20201019, max_mats |-> 1]
    /\ \E f \in ArchiveFiles("f1", {0, 1}, MaxFrames, MaxData) :
           store = [legacy |-> <<[date |-> 20201019, files |-> <<f>>]>>, new |-> <<>>]
    /\ legacy_client = ClientStart
    /\ new_client = ClientStart
    /\ legacy_gen = LegacyGenStart
    /\ new_gen = NewGenStart
    /\ list_gen = "created"
    /\ entries = <<>>
    /\ mats = <<>>

\* The consumer calls next() on the generator OoniClient.list_files returned:
\* it runs to its next yield (lines 70-71).
ListFilesNext ==
    /\ list_gen \in {"created", "suspended"}
    /\ list_gen' = "running"
    /\ UNCHANGED <<pureVars, req, store, legacy_client, new_client, legacy_gen, new_gen,
                   entries, mats>>

LegacyListNext ==
    \/ LegacyListStart
    \/ LegacyFetchPage
    \/ LegacyNextDir
    \/ LegacyYieldFile
    \/ LegacyIndexEnd

LegacyMatNext ==
    \/ \E i \in 1..Len(mats) : MatNextSegment(i)
    \/ \E i \in 1..Len(mats) : MatYieldRecord(i)
    \/ \E i \in 1..Len(mats) : MatDecodeError(i)
    \/ \E i \in 1..Len(mats) : MatReturn(i)

SpecFileNext ==
    \/ ListFilesNext
    \/ LegacyListNext
    \/ NewListStart
    \/ CallGetMeasurements
    \/ LegacyMatNext
SpecFile == SpecFileInit /\ [][SpecFileNext]_vars

(***************************************************************************)
(* fetch_measurements.main: the threads of the ThreadPool (lines 91-93)    *)
(* run fetch_file on different entries, whose _get_measurements share the  *)
(* counters of the one _LegacyOoniClient. The statement                    *)
(*     self.num_get_requests += 1                                          *)
(* reads the attribute, adds, and stores the attribute: the interpreter may*)
(* switch threads between the read and the store, and the code takes no    *)
(* lock. Each worker keeps the value it read in reg. Decoding (lines       *)
(* 235-244) touches nothing shared and is left out of a worker's steps.    *)
(***************************************************************************)
WorkerStart(frames) ==
    [frames |-> frames,   \* file_entry['frames'] of the worker's own entry
     fi |-> 1,            \* the next frame (from 1)
     pc |-> "plan",       \* "plan", "load_num", "store_num", "load_bytes",
                          \* "store_bytes", "done"
     size |-> 0,          \* segment_end - segment_start of the segment fetched
     reg |-> 0,           \* the counter value read and not yet stored
     gets |-> 0,          \* the get_object calls the worker made
     bytes |-> 0]         \* the sum of the sizes of the segments it fetched

\* Lines 221-232: plan the next segment and call get_object.
WorkerGetObject(t) ==
    LET w == workers[t]
    IN  /\ w.pc = "plan"
        /\ w.fi <= Len(w.frames)
        /\ LET s == NextSegment(w.frames, w.fi)
           IN  workers' = [workers EXCEPT ![t] =
                   [w EXCEPT !.fi = s.fi, !.pc = "load_num",
                             !.size = s.segment_end - s.segment_start,
                             !.gets = @ + 1,
                             !.bytes = @ + (s.segment_end - s.segment_start)]]
        /\ UNCHANGED <<fm, plan, parse, clientVars, toolVars, meas, as_repo, evaluator>>

\* Line 233, first half: read self.num_get_requests.
WorkerLoadNum(t) ==
    /\ workers[t].pc = "load_num"
    /\ workers' = [workers EXCEPT ![t] =
           [@ EXCEPT !.pc = "store_num", !.reg = legacy_client.num_get_requests]]
    /\ UNCHANGED <<fm, plan, parse, clientVars, toolVars, meas, as_repo, evaluator>>

\* Line 233, second half: store the value read plus one.
WorkerStoreNum(t) ==
    /\ workers[t].pc = "store_num"
    /\ legacy_client' = [legacy_client EXCEPT !.num_get_requests = workers[t].reg + 1]
    /\ workers' = [workers EXCEPT ![t] = [@ EXCEPT !.pc = "load_bytes"]]
    /\ UNCHANGED <<fm, plan, parse, req, store, new_client, legacy_gen, new_gen, list_gen,
                   entries, mats, meas, as_repo, evaluator, toolVars>>

\* Line 234, first half: read self.bytes_downloaded.
WorkerLoadBytes(t) ==
    /\ workers[t].pc = "load_bytes"
    /\ workers' = [workers EXCEPT ![t] =
           [@ EXCEPT !.pc = "store_bytes", !.reg = legacy_client.bytes_downloaded]]
    /\ UNCHANGED <<fm, plan, parse, clientVars, toolVars, meas, as_repo, evaluator>>

\* Line 234, second half: store the value read plus the segment's size; the
\* loop goes on with the next segment.
WorkerStoreBytes(t) ==
    /\ workers[t].pc = "store_bytes"
    /\ legacy_client' = [legacy_client EXCEPT
           !.bytes_downloaded = workers[t].reg + workers[t].size]
    /\ workers' = [workers EXCEPT ![t] = [@ EXCEPT !.pc = "plan"]]
    /\ UNCHANGED <<fm, plan, parse, req, store, new_client, legacy_gen, new_gen, list_gen,
                   entries, mats, meas, as_repo, evaluator, toolVars>>

\* Line 221, no frame left: the generator returns and fetch_file ends.
WorkerReturn(t) ==
    /\ workers[t].pc = "plan"
    /\ workers[t].fi > Len(workers[t].frames)
    /\ workers' = [workers EXCEPT ![t] = [@ EXCEPT !.pc = "done"]]
    /\ UNCHANGED <<fm, plan, parse, clientVars, toolVars, meas, as_repo, evaluator>>

NumWorkers == 2
MaxWorkerFrames == 2
\* Frame lists of the workers' entries: frames of size 1 at offsets that make
\* one or two segments.
WorkerFrames ==
    {fs \in SeqsUpTo([file_off : 0..MaxWorkerFrames, file_size : {1}], MaxWorkerFrames) :
        /\ Len(fs) >= 1
        /\ \A i \in 1..(Len(fs) - 1) : fs[i].file_off < fs[i + 1].file_off}

(***************************************************************************)
(* Store failures while listing. The code catches no exception: one raised *)
(* by the paginator (line 198) or by get_object (line 211) leaves          *)
(* _LegacyOoniClient.list_files and, through the yield from of line 70,    *)
(* OoniClient.list_files. A generator an exception has left is finished:   *)
(* every later next() on it raises StopIteration.                          *)
(***************************************************************************)
\* Line 198: fetching the next page of date prefixes fails.
LegacyPageFails ==
    /\ list_gen = "running"
    /\ legacy_gen.pc = "pages"
    /\ legacy_gen.page < Len(LegacyPages)
    /\ legacy_gen' = [legacy_gen EXCEPT !.pc = "pages_raised", !.list_calls = @ + 1]
    /\ list_gen' = "raised"
    /\ UNCHANGED <<pureVars, req, store, legacy_client, new_client, new_gen, entries, mats>>

\* Lines 200-206 and 211: the get_object of a date prefix's index fails,
\* before the counters of lines 213-214 are updated.
LegacyIndexFails ==
    /\ list_gen = "running"
    /\ legacy_gen.pc = "dirs"
    /\ legacy_gen.di < Len(LegacyPages[legacy_gen.page])
    /\ LET dir == LegacyPages[legacy_gen.page][legacy_gen.di + 1]
       IN  /\ dir.date <= req.last_date
           /\ legacy_gen' = [legacy_gen EXCEPT !.pc = "index_raised", !.di = @ + 1,
                                               !.date = dir.date, !.get_calls = @ + 1]
    /\ list_gen' = "raised"
    /\ UNCHANGED <<pureVars, req, store, legacy_client, new_client, new_gen, entries, mats>>

(***************************************************************************)
(* OoniClient's counter properties (lines 49-59): sums over the backends.  *)
(***************************************************************************)
num_list_requests == new_client.num_list_requests + legacy_client.num_list_requests
num_get_requests == new_client.num_get_requests + legacy_client.num_get_requests
bytes_downloaded == new_client.bytes_downloaded + legacy_client.bytes_downloaded

(***************************************************************************)
(* Frame decoding over an index whose datum offsets need not agree with    *)
(* the archive: the file entry _files_from_index yields carries the        *)
(* offsets the index states, whatever the stored text is.                  *)
(***************************************************************************)
MaxDecodeRecords == 2
MaxIndexData == 2
\* The stored file: one frame at file offset 0 holding the records, back to
\* back; a record is RecordTextSize long or shorter.
DecodeFiles ==
    [filename : {"f1"}, hdr : {0},
     frames : {<<fr>> : fr \in [file_size : {FrameFileSize},
                                 data : SeqsUpTo([text_size : {1, RecordTextSize}, kept : {TRUE}],
                                                 MaxDecodeRecords) \ {<<>>}]}]
\* The data lines the index gives for the frame.
IndexData ==
    SeqsUpTo([type : {"datum"}, text_off : 0..(MaxDecodeRecords * RecordTextSize),
              text_size : {1, RecordTextSize}], MaxIndexData) \ {<<>>}
\* What _files_from_index yields for the file with these data lines.
DecodeFileEntry(f, data) ==
    DictSet([type |-> "file", filename |-> f.filename], "frames",
            <<DictSet(PhysFrames(f)[1], "data", data)>>)

(***************************************************************************)
(* netanalysis.ooni.measurement: Measurement.get (lines 66-75).            *)
(*                                                                         *)
(* A JSON value is a pair of a tag and a content: t = "null", "str" (the   *)
(* content a string), "list" (a sequence) or "dict" (a function from keys  *)
(* to JSON values). The keys of a path are strings, as get's signature     *)
(* (path: List[str]) states.                                               *)
(***************************************************************************)
JsonNull == [t |-> "null", v |-> <<>>]
JsonStr(x) == [t |-> "str", v |-> x]
JsonList(x) == [t |-> "list", v |-> x]
JsonDict(x) == [t |-> "dict", v |-> x]

\* value[key] for a string key: the item, or the exception Python raises.
Subscript(value, key) ==
    IF value.t = "dict"
    THEN IF key \in DOMAIN value.v
         THEN [exc |-> "none", value |-> value.v[key]]
         ELSE [exc |-> "KeyError", value |-> JsonNull]
    ELSE [exc |-> "TypeError", value |-> JsonNull]   \* None, str and list subscripted by a str

\* Mutant: the final value is returned even when it is None.
MeasurementGet_NoNullCheck(data, path, default) ==
    LET RECURSIVE Loop(_, _)
        Loop(value, i) ==
            IF i > Len(path) THEN [exc |-> "none", value |-> value]
            ELSE LET r == Subscript(value, path[i])
                 IN  IF r.exc \in {"KeyError", "TypeError"}
                     THEN [exc |-> "none", value |-> default]
                     ELSE Loop(r.value, i + 1)
    IN  Loop(data, 1)

\* get(path, default): what it returns (exc = "none"), or the exception raised.
MeasurementGet(data, path, default) ==
    LET RECURSIVE Loop(_, _)
        Loop(value, i) ==
            IF i > Len(path)
            THEN [exc |-> "none", value |-> IF value = JsonNull THEN default ELSE value]
            ELSE LET r == Subscript(value, path[i])
                 IN  IF r.exc \in {"KeyError", "TypeError"}
                     THEN [exc |-> "none", value |-> default]
                     ELSE IF r.exc # "none" THEN r
                     ELSE Loop(r.value, i + 1)
    IN  Loop(data, 1)

MaxJsonDepth == 2
MaxPathLen == 2
JsonKeys == {"test_keys", "dns_experiment_failure"}
JsonLeaves == {JsonNull, JsonStr("dns_nxdomain"), JsonList(<<>>)}
\* The JSON values nested at most depth deep.
RECURSIVE JsonValues(_)
JsonValues(depth) ==
    IF depth = 0 THEN JsonLeaves
    ELSE JsonLeaves \cup
         {JsonDict(d) : d \in UNION {[S -> JsonValues(depth - 1)] : S \in SUBSET JsonKeys}}
Missing == JsonStr("MISSING")

\* A Measurement is made of some data, and get is called on it.
MeasInit ==
    meas \in [data : JsonValues(MaxJsonDepth), path : SeqsUpTo(JsonKeys, MaxPathLen),
              default : {Missing}, result : {NoResult}]

CallMeasurementGet ==
    /\ meas.result = NoResult
    /\ meas' = [meas EXCEPT !.result = <<MeasurementGet(meas.data, meas.path, meas.default)>>]
    /\ UNCHANGED <<fm, plan, parse, clientVars, toolVars, workers, as_repo, evaluator>>

(***************************************************************************)
(* netanalysis.ip.simple_autonomous_system: InMemoryAsRepository (lines    *)
(* 67-92), SimpleAutonomousSystem (27-55) and the unknown AS and org       *)
(* (58-63). None is modelled by the string "None", which is no org id.     *)
(***************************************************************************)
None == "None"
\* SimpleAutonomousSystem.__init__: the fields the properties id, name and
\* org read (the repository it refers to is the one repository modelled).
SimpleAutonomousSystem(as_number, as_name, org_id) ==
    [id |-> as_number, name |-> as_name, org_id |-> org_id]
\* model.AsOrg, a namedtuple.
AsOrg(org_id, org_name, org_country) ==
    [id |-> org_id, name |-> org_name, country |-> org_country]
\* "AS%d" % as_number
UnknownAutonomousSystem(as_number) ==
    SimpleAutonomousSystem(as_number, "AS" \o ToString(as_number), None)
UnknownAsOrg(org_id) == AsOrg(org_id, org_id, None)

\* get_as: id_as.get(as_number) is None for a missing key; a stored
\* SimpleAutonomousSystem is an object without __bool__ or __len__, so truthy.
get_as(id_as, as_number) ==
    IF ~HasKey(id_as, as_number) THEN UnknownAutonomousSystem(as_number)
    ELSE id_as[as_number]

\* Mutant: get_org finds no org.
get_org_Unknown(id_org, org_id) == UnknownAsOrg(org_id)

\* get_org: a stored AsOrg is a tuple of five fields, so truthy.
get_org(id_org, org_id) ==
    IF ~HasKey(id_org, org_id) THEN UnknownAsOrg(org_id) ELSE id_org[org_id]

\* The property org of an AS (lines 50-52), evaluated on the repository as it is.
org(id_org, autonomous_system) == get_org(id_org, autonomous_system.org_id)

MaxRepoAdds == 3
AsNumbers == {1, 999}
AsNames == {"First AS", "Other AS"}
OrgIds == {"org1", "orgX"}
OrgNames == {"First Org", "Other Org"}

\* InMemoryAsRepository.__init__; adds is the list of the add calls made and
\* last the latest get_as, get_org or org evaluation with its result.
AsRepoStart == [id_as |-> EmptyDict, id_org |-> EmptyDict, adds |-> <<>>, last |-> NoResult]

add_as ==
    /\ Len(as_repo.adds) < MaxRepoAdds
    /\ \E n \in AsNumbers, name \in AsNames, o \in OrgIds :
           as_repo' = [as_repo EXCEPT
               !.id_as = DictSet(@, n, SimpleAutonomousSystem(n, name, o)),
               !.adds = Append(@, [op |-> "add_as", key |-> n, name |-> name, org_id |-> o])]
    /\ UNCHANGED <<fm, plan, parse, clientVars, toolVars, workers, meas, evaluator>>

add_org ==
    /\ Len(as_repo.adds) < MaxRepoAdds
    /\ \E o \in OrgIds, name \in OrgNames :
           as_repo' = [as_repo EXCEPT
               !.id_org = DictSet(@, o, AsOrg(o, name, "Country1")),
               !.adds = Append(@, [op |-> "add_org", key |-> o, name |-> name, org_id |-> o])]
    /\ UNCHANGED <<fm, plan, parse, clientVars, toolVars, workers, meas, evaluator>>

CallGetAs ==
    /\ \E n \in AsNumbers :
           as_repo' = [as_repo EXCEPT !.last =
               <<[op |-> "get_as", at |-> Len(as_repo.adds), arg |-> n,
                  result |-> get_as(as_repo.id_as, n)]>>]
    /\ UNCHANGED <<fm, plan, parse, clientVars, toolVars, workers, meas, evaluator>>

CallGetOrg ==
    /\ \E o \in OrgIds :
           as_repo' = [as_repo EXCEPT !.last =
               <<[op |-> "get_org", at |-> Len(as_repo.adds), arg |-> o,
                  result |-> get_org(as_repo.id_org, o)]>>]
    /\ UNCHANGED <<fm, plan, parse, clientVars, toolVars, workers, meas, evaluator>>

\* .org read on the AS the latest get_as returned, whatever was added since.
ReadOrg ==
    /\ as_repo.last # NoResult
    /\ as_repo.last[1].op = "get_as"
    /\ as_repo' = [as_repo EXCEPT !.last =
           <<[op |-> "org", at |-> Len(as_repo.adds), arg |-> as_repo.last[1].result,
              result |-> org(as_repo.id_org, as_repo.last[1].result)]>>]
    /\ UNCHANGED <<fm, plan, parse, clientVars, toolVars, workers, meas, evaluator>>

(***************************************************************************)
(* netanalysis.ooni.analysis.dns: Domain (lines 35-79), DomainRepository   *)
(* (82-87), make_status (138-142) and Evaluator (187-219).  A failure text *)
(* and a status are strings, modelled as sequences of tokens so that       *)
(* replacing the domain inside a text is computed; domain names and        *)
(* address strings are single tokens.                                      *)
(***************************************************************************)
\* str.replace(old, new) on a text of tokens.
RECURSIVE str_replace(_, _, _)
str_replace(s, old, new) ==
    IF s = <<>> THEN <<>>
    ELSE <<IF Head(s) = old THEN new ELSE Head(s)>> \o str_replace(Tail(s), old, new)

\* _ERROR_TXT_TO_CODE (lines 124-135): the texts of each code that the
\* inputs below can produce.
ERROR_TXT_TO_CODE ==
    (<<"dns_server_failure">> :> <<"SERVFAIL">>) @@
    (<<"dns_nxdomain_error">> :> <<"NXDOMAIN">>) @@
    (<<"lookup", "[DOMAIN]", "No address associated with hostname">> :> <<"NXDOMAIN">>)

make_status(domain, failure) ==
    IF failure = <<>> THEN <<"INCONCLUSIVE_MISSING_FAILURE">>
    ELSE LET generic_failure == str_replace(failure, domain, "[DOMAIN]")
         IN  DictGet(ERROR_TXT_TO_CODE, generic_failure, generic_failure)

\* Measurement.hostname (measurement.py lines 35-39): the host of the input,
\* which is a URL with a scheme or a bare host.
hostname(data) ==
    LET input == data.v["input"].v
    IN  IF Head(input) = "https://" THEN input[2] ELSE input[1]

\* bool(value) of a JSON value.
Truthy(value) ==
    CASE value.t = "null" -> FALSE
      [] value.t = "dict" -> DOMAIN value.v # {}
      [] OTHER -> value.v # <<>>

\* ipaddress.ip_address(address_str) succeeds for these, and ip.is_global.
IpAddresses == {"8.8.8.8", "10.0.0.1"}
is_global(ip) == ip = "8.8.8.8"

\* Domain.__init__
Domain == [cnames |-> {}, ips |-> {}]
\* DomainRepository.get: setdefault keeps a Domain already there.
DomainRepositoryGet(domains, domain_name) ==
    IF HasKey(domains, domain_name) THEN domains ELSE DictSet(domains, domain_name, Domain)

\* Domain.add_path on the domain called name; the result is the repository.
RECURSIVE add_path(_, _, _, _)
add_path(domains, name, cnames, ips) ==
    IF cnames # <<>>
    THEN add_path([domains EXCEPT ![name].cnames = @ \cup {Head(cnames)}],
                  Head(cnames), Tail(cnames), ips)
    ELSE [domains EXCEPT ![name].ips = @ \cup {ips[i] : i \in 1..Len(ips)}]

\* The domains the search of path_matches_control visits: the domain and
\* what its cnames lead to, each once (the visited set).
RECURSIVE Visited(_, _)
Visited(domains, names) ==
    LET more == names \cup UNION {domains[n].cnames : n \in names}
    IN  IF more = names THEN names ELSE Visited(domains, more)

path_matches_control(domains, name, ips) ==
    \E n \in Visited(domains, {name}) : \E i \in 1..Len(ips) : ips[i] \in domains[n].ips

\* Domain.path_is_valid: the result and the repository after it.
path_is_valid(domains, name, cnames, ips) ==
    IF \E i \in 1..Len(ips) : ~is_global(ips[i])
    THEN [result |-> <<"BAD_NON_GLOBAL_IP">>, domains |-> domains]
    ELSE IF path_matches_control(domains, name, ips)
         THEN [result |-> <<"OK_MATCHES_CONTROL">>,
               domains |-> add_path(domains, name, cnames, ips)]
         ELSE [result |-> <<"INCONCLUSIVE_CHECK_IPS">>, domains |-> domains]

\* The loop of add_control over the addresses (lines 203-209): the cnames
\* and ips collected, and the repository after the get calls.
RECURSIVE CollectAddresses(_, _, _, _, _)
CollectAddresses(domains, domain, addresses, cnames, ips) ==
    IF addresses = <<>> THEN [domains |-> domains, cnames |-> cnames, ips |-> ips]
    ELSE LET address_str == Head(addresses).v
         IN  IF address_str \in IpAddresses
             THEN CollectAddresses(domains, domain, Tail(addresses), cnames,
                                   Append(ips, address_str))
             ELSE IF address_str # domain
                  THEN CollectAddresses(DomainRepositoryGet(domains, address_str), domain,
                                        Tail(addresses), Append(cnames, address_str), ips)
                  ELSE CollectAddresses(domains, domain, Tail(addresses), cnames, ips)

\* Evaluator.evaluate: the result and the repository after it.
evaluate(errors, domains, domain_name, status, cnames, ips) ==
    IF status = <<"OK">>
    THEN LET got == DomainRepositoryGet(domains, domain_name)
         IN  path_is_valid(got, domain_name, cnames, ips)
    ELSE IF <<domain_name, status>> \in errors
    THEN [result |-> <<"OK_MATCHES_CONTROL_ERROR">>, domains |-> domains]
    ELSE IF <<domain_name, <<"OK">>>> \notin errors
    THEN [result |-> <<"INCONCLUSIVE_BAD_CONTROL">>, domains |-> domains]
    ELSE [result |-> <<"BAD_STATUS_">> \o status, domains |-> domains]

MaxControls == 2
DomainNames == {"d1.org", "d2.org"}
\* The failure texts of a control for a domain.
FailureTexts(domain) ==
    {<<"dns_nxdomain_error">>, <<"dns_server_failure">>,
     <<"lookup", domain, "No address associated with hostname">>,
     <<"generic_timeout_error">>, <<"OK">>}
AddrLists(domain) ==
    {<<>>, <<JsonStr("8.8.8.8")>>, <<JsonStr("cdn.net"), JsonStr("8.8.8.8")>>,
     <<JsonStr(domain), JsonStr("10.0.0.1")>>}
\* The dns entry of a control: absent keys, a null failure, a failure, addresses.
ControlDns(domain) ==
    {JsonDict(EmptyDict)}
    \cup {JsonDict([k \in {"failure"} |-> JsonStr(f)]) : f \in FailureTexts(domain)}
    \cup {JsonDict([k \in {"addrs"} |-> JsonList(a)]) : a \in AddrLists(domain)}
    \cup {JsonDict([k \in {"failure", "addrs"} |->
                       IF k = "failure" THEN JsonNull ELSE JsonList(a)]) : a \in AddrLists(domain)}
    \cup {JsonDict([k \in {"failure", "addrs"} |->
                       IF k = "failure" THEN JsonStr(<<"dns_nxdomain_error">>)
                       ELSE JsonList(<<JsonStr("8.8.8.8")>>)])}
\* The input of the measurements of a domain: a URL or the bare host.
ControlInput(d) == IF d = "d1.org" THEN <<"https://", d>> ELSE <<d>>
\* The control measurements: with and without a control entry.
ControlMeasurements ==
    UNION {
      {JsonDict([k \in {"input", "test_keys"} |->
          IF k = "input" THEN JsonStr(input)
          ELSE JsonDict([c \in {"control"} |-> JsonDict([x \in {"dns"} |-> dns])])]) :
         input \in {ControlInput(d)}, dns \in ControlDns(d)}
      \cup {JsonDict([k \in {"input", "test_keys"} |->
          IF k = "input" THEN JsonStr(ControlInput(d)) ELSE JsonDict(EmptyDict)])}
      : d \in DomainNames}
EvaluateStatuses ==
    {<<"OK">>, <<"NXDOMAIN">>, <<"SERVFAIL">>, <<"generic_timeout_error">>}
\* The DnsPath values evaluate is called with.
EvaluatePaths ==
    {[cnames |-> <<>>, ips |-> <<>>], [cnames |-> <<>>, ips |-> <<"8.8.8.8">>],
     [cnames |-> <<>>, ips |-> <<"10.0.0.1">>], [cnames |-> <<"cdn.net">>, ips |-> <<"8.8.8.8">>]}

\* Evaluator.__init__ with an empty DomainRepository; controls is the list of
\* the measurements add_control processed, last the latest evaluate call.
EvaluatorStart == [errors |-> {}, domains |-> EmptyDict, controls |-> <<>>, last |-> NoResult]

add_control ==
    /\ Len(evaluator.controls) < MaxControls
    /\ \E m \in ControlMeasurements :
          LET domain == hostname(m)
              failure == MeasurementGet(m, <<"test_keys", "control", "dns", "failure">>, JsonNull).value
              addresses == MeasurementGet(m, <<"test_keys", "control", "dns", "addrs">>, JsonNull).value
              collected == CollectAddresses(evaluator.domains, domain, addresses.v, <<>>, <<>>)
              got == DomainRepositoryGet(collected.domains, domain)
          IN  evaluator' =
                 IF Truthy(failure)
                 THEN [evaluator EXCEPT
                          !.errors = @ \cup {<<domain, make_status(domain, failure.v)>>},
                          !.controls = Append(@, m)]
                 ELSE IF Truthy(addresses)
                 THEN [evaluator EXCEPT
                          !.errors = @ \cup {<<domain, <<"OK">>>>},
                          !.domains = add_path(got, domain, collected.cnames, collected.ips),
                          !.controls = Append(@, m)]
                 ELSE [evaluator EXCEPT !.controls = Append(@, m)]
    /\ UNCHANGED <<fm, plan, parse, clientVars, toolVars, workers, meas, as_repo>>

\* evaluate, called with a DnsPath whose cnames are domains of the repository.
CallEvaluate ==
    /\ \E domain_name \in DomainNames, status \in EvaluateStatuses, dns_path \in EvaluatePaths :
          LET known == IF dns_path.cnames = <<>> THEN evaluator.domains
                       ELSE DomainRepositoryGet(evaluator.domains, dns_path.cnames[1])
              r == evaluate(evaluator.errors, known, domain_name, status,
                            dns_path.cnames, dns_path.ips)
          IN  evaluator' = [evaluator EXCEPT
                  !.domains = r.domains,
                  !.last = <<[domain_name |-> domain_name, status |-> status,
                              at |-> Len(evaluator.controls), result |-> r.result]>>]
    /\ UNCHANGED <<fm, plan, parse, clientVars, toolVars, workers, meas, as_repo>>

(***************************************************************************)
(* netanalysis.ooni.bucket.sync_measurements (lines 248-269): sync_entry   *)
(* run by the threads of a ThreadPool on different entries. The closure    *)
(* variable downloaded_bytes is shared and no lock is taken: between the   *)
(* test of line 257 and the store of line 259 the interpreter may switch   *)
(* threads, and the statement of line 259 reads the variable, adds, and    *)
(* stores it. Each thread keeps the value it read in reg.                  *)
(***************************************************************************)
NumSyncThreads == 2
\* data_limit_bytes (line 250), for a cost limit that allows this many bytes.
data_limit_bytes == 3
SyncNames == <<"a.json.gz", "b.json.gz">>
SyncSizes == {1, 2}

SyncThreadStart(name, size) ==
    [entry |-> [name |-> name, size |-> size],
     pc |-> "has",      \* "has", "limit", "load", "store", "save", then "skipped",
                        \* "raised" (CostLimitError) or "returned"
     reg |-> 0]

\* sync_measurements up to the start of the pool (lines 249-266); local is
\* what local_measurements holds, fetched the entries whose get_file was called.
SyncInit ==
    \E sizes \in [1..NumSyncThreads -> SyncSizes], local \in SUBSET {SyncNames[1]} :
        sync = [downloaded_bytes |-> 0, local |-> local, fetched |-> {},
                threads |-> [t \in 1..NumSyncThreads |-> SyncThreadStart(SyncNames[t], sizes[t])]]

\* Line 255-256: if local_measurements.has(...): return 'Skipping ...'
SyncHas(t) ==
    /\ sync.threads[t].pc = "has"
    /\ sync' = [sync EXCEPT !.threads[t].pc =
                    IF sync.threads[t].entry.name \in sync.local THEN "skipped" ELSE "limit"]
    /\ UNCHANGED <<fm, plan, parse, clientVars, workers, meas, as_repo, evaluator, topn>>

\* Line 257-258: if downloaded_bytes + entry.size > data_limit_bytes: raise
SyncCheckLimit(t) ==
    /\ sync.threads[t].pc = "limit"
    /\ sync' = [sync EXCEPT !.threads[t].pc =
                    IF sync.downloaded_bytes + sync.threads[t].entry.size > data_limit_bytes
                    THEN "raised" ELSE "load"]
    /\ UNCHANGED <<fm, plan, parse, clientVars, workers, meas, as_repo, evaluator, topn>>

\* Line 259, downloaded_bytes += entry.size: the read.
SyncLoad(t) ==
    /\ sync.threads[t].pc = "load"
    /\ sync' = [sync EXCEPT !.threads[t].reg = sync.downloaded_bytes,
                            !.threads[t].pc = "store"]
    /\ UNCHANGED <<fm, plan, parse, clientVars, workers, meas, as_repo, evaluator, topn>>

\* Line 259: the store of the sum.
SyncStore(t) ==
    /\ sync.threads[t].pc = "store"
    /\ sync' = [sync EXCEPT !.downloaded_bytes = sync.threads[t].reg + sync.threads[t].entry.size,
                            !.threads[t].pc = "save"]
    /\ UNCHANGED <<fm, plan, parse, clientVars, workers, meas, as_repo, evaluator, topn>>

\* Lines 260-262: entry.get_file(), local_measurements.save(...), return.
SyncSave(t) ==
    /\ sync.threads[t].pc = "save"
    /\ sync' = [sync EXCEPT !.fetched = @ \cup {sync.threads[t].entry.name},
                            !.local = @ \cup {sync.threads[t].entry.name},
                            !.threads[t].pc = "returned"]
    /\ UNCHANGED <<fm, plan, parse, clientVars, workers, meas, as_repo, evaluator, topn>>

(***************************************************************************)
(* netanalysis.ooni.fetch_measurements.atop_n (lines 45-51, the same in    *)
(* list_ooni_files lines 40-46) over ApiOoniClient.list_measurements       *)
(* (netanalysis/ooni/ooni_client.py lines 133-161), both async generators. *)
(* The API's answer is a list of pages; every page but the last carries a  *)
(* next_url.                                                               *)
(***************************************************************************)
MaxTopN == 3
MaxApiPages == 3
MaxPageResults == 2

\* The results of pages whose lengths are lens, numbered in order from 1.
ApiPages(lens) ==
    [p \in 1..Len(lens) |->
        [j \in 1..lens[p] |-> SumSeq(SubSeq(lens, 1, p - 1)) + j]]

\* list_measurements resumed (lines 150-161): the while loop up to its next
\* yield, or to its return. page counts the pages fetched.
RECURSIVE list_measurements(_)
list_measurements(st) ==
    IF st.measurement_entries = <<>>
    THEN IF st.page >= Len(st.pages)                      \* not next_page_url
         THEN [st EXCEPT !.inner = "returned"]
         ELSE list_measurements([st EXCEPT !.page = @ + 1,
                                           !.measurement_entries = st.pages[st.page + 1]])
    ELSE [st EXCEPT !.item = <<Head(st.measurement_entries)>>,
                    !.measurement_entries = Tail(@)]

\* atop_n(inner, n) and the generator inner, neither started.
AtopStart(n, pages) ==
    [n |-> n, pages |-> pages,
     remaining |-> n,
     pc |-> "created",             \* "created", "suspended" (at the yield), "returned"
     yielded |-> <<>>,             \* the items atop_n has yielded
     requested |-> 0,              \* the items atop_n has asked inner for
     inner |-> "created",          \* "created", "suspended", "returned"
     page |-> 0, measurement_entries |-> <<>>, item |-> NoResult]

TopnInit ==
    \E n \in 0..MaxTopN, lens \in SeqsUpTo(0..MaxPageResults, MaxApiPages) \ {<<>>} :
        topn = AtopStart(n, ApiPages(lens))

\* The consumer asks atop_n for its next item: atop_n runs from where it is
\* (the start, or after the yield: remaining -= 1) to its next yield or to
\* its end, asking inner for one item.
AtopNext ==
    /\ topn.pc \in {"created", "suspended"}
    /\ LET remaining == IF topn.pc = "suspended" THEN topn.remaining - 1 ELSE topn.remaining
           asked == [topn EXCEPT !.remaining = remaining, !.requested = @ + 1,
                                 !.inner = "suspended", !.item = NoResult]
           got == list_measurements(asked)
       IN  topn' = IF got.inner = "returned" THEN [got EXCEPT !.pc = "returned"]
                   ELSE IF remaining <= 0 THEN [got EXCEPT !.pc = "returned"]
                   ELSE [got EXCEPT !.pc = "suspended", !.yielded = Append(@, got.item[1])]
    /\ UNCHANGED <<fm, plan, parse, clientVars, workers, meas, as_repo, evaluator, sync>>

(***************************************************************************)
(* C6. The filename convention, stated on the characters of the name       *)
(* without the code's split/replace.                                       *)
(***************************************************************************)
RefBasename(p) ==
    CHOOSE b \in {SubSeq(p, i, Len(p)) : i \in 1..(Len(p) + 1)} :
        /\ \A j \in 1..Len(b) : b[j] # "/"
        /\ Len(b) = Len(p) \/ p[Len(p) - Len(b)] = "/"

DashPositions(b) == {i \in 1..Len(b) : b[i] = "-"}
NumDashFields(b) == Cardinality(DashPositions(b)) + 1
\* Position of the k-th dash of b; 0 for k = 0 and Len(b) + 1 past the last.
DashAt(b, k) ==
    IF k = 0 THEN 0
    ELSE IF k > Cardinality(DashPositions(b)) THEN Len(b) + 1
    ELSE CHOOSE i \in DashPositions(b) :
             Cardinality({j \in DashPositions(b) : j <= i}) = k
\* The field of index k (from 0) of the dash-separated basename b.
DashField(b, k) == SubSeq(b, DashAt(b, k) + 1, DashAt(b, k + 1) - 1)
IsNotUnderscore(c) == c # "_"
UnderscoresRemoved(s) == SelectSeq(s, IsNotUnderscore)

RefMatches(filename, test_type, country) ==
    LET b == RefBasename(filename)
    IN  /\ NumDashFields(b) >= 4
        /\ DashField(b, 1) = country
        /\ UnderscoresRemoved(DashField(b, 3)) = test_type

RefMatchesVerbatim(filename, test_type, country) ==
    LET b == RefBasename(filename)
    IN  /\ NumDashFields(b) >= 4
        /\ DashField(b, 1) = country
        /\ DashField(b, 3) = test_type

\* The example name of the claim: ...-BR-...-web_connectivity (in a directory).
ExampleName == <<"a", "-", "b", "/">> \o JoinDash(<<<<"x">>, BR, <<"x">>, web_connectivity>>)

FrameEnd(f) == f.file_off + f.file_size
ByteRange(lo, hi) == lo..(hi - 1)

\* Ordered by file_off, every frame ending at or before the next one starts.
OrderedFrames(frames) ==
    \A i \in 1..(Len(frames) - 1) : FrameEnd(frames[i]) <= frames[i + 1].file_off

\* The indices after which a contiguous run ends with a gap.
RunBreaks(frames) ==
    {i \in 1..(Len(frames) - 1) : FrameEnd(frames[i]) # frames[i + 1].file_off}
NumRuns(frames) == IF frames = <<>> THEN 0 ELSE Cardinality(RunBreaks(frames)) + 1
\* The index of the last frame of the k-th run (0 for k = 0).
RunLast(frames, k) ==
    IF k = 0 THEN 0
    ELSE IF k = NumRuns(frames) THEN Len(frames)
    ELSE CHOOSE i \in RunBreaks(frames) :
             Cardinality({j \in RunBreaks(frames) : j <= i}) = k
RunFirst(frames, k) == RunLast(frames, k - 1) + 1

\* C3: for an ordered frame list with K maximal contiguous runs the planner
\* builds exactly K segments, the k-th spanning its run; the segments cover
\* exactly the frames' bytes and do not overlap; one run gives one segment
\* and N fully fragmented frames give N one-frame segments.
C3_PlannerBuildsOneSegmentPerRun ==
    (PlanDone /\ OrderedFrames(plan.frames)) =>
        LET frames == plan.frames
            segs == plan.segments
            K == NumRuns(frames)
        IN  /\ Len(segs) = K
            /\ \A k \in 1..K :
                   /\ segs[k].segment_start = frames[RunFirst(frames, k)].file_off
                   /\ segs[k].segment_end = FrameEnd(frames[RunLast(frames, k)])
                   /\ segs[k].segment = SubSeq(frames, RunFirst(frames, k), RunLast(frames, k))
            /\ UNION {ByteRange(segs[k].segment_start, segs[k].segment_end) : k \in 1..Len(segs)}
                   = UNION {ByteRange(frames[i].file_off, FrameEnd(frames[i])) : i \in 1..Len(frames)}
            /\ \A j, k \in 1..Len(segs) :
                   j # k => ByteRange(segs[j].segment_start, segs[j].segment_end)
                                \cap ByteRange(segs[k].segment_start, segs[k].segment_end) = {}
            /\ (frames # <<>> /\ RunBreaks(frames) = {}) => Len(segs) = 1
            /\ Cardinality(RunBreaks(frames)) = Len(frames) - 1 =>
                   /\ Len(segs) = Len(frames)
                   /\ \A k \in 1..Len(segs) : Len(segs[k].segment) = 1

\* Three ordered frames in two runs (two adjacent frames, a gap, one frame), planned.
C3_Witness ==
    /\ PlanDone
    /\ OrderedFrames(plan.frames)
    /\ Len(plan.frames) = 3
    /\ RunBreaks(plan.frames) = {2}
    /\ plan.frames[1].file_size > 0
    /\ Len(plan.segments) = 2

(***************************************************************************)
(* C5. Files and frames the index parser lets through.                     *)
(***************************************************************************)
FramesOf(d) == DictGet(d, "frames", <<>>)
DataOf(d) == DictGet(d, "data", <<>>)
LineProcessed(type) ==
    parse'.n = parse.n + 1 /\ HasKey(parse'.last, "type") /\ parse'.last.type = type

\* C5: every yielded file has at least one frame and every frame of a yielded
\* file at least one datum; a '/frame' closing a frame with no recorded datum
\* attaches nothing, a '/file' closing a file with no frame yields nothing,
\* and a datum is recorded only while the recording flag is set.
C5_YieldedFilesHaveFramesWithData ==
    /\ [](\A i \in 1..Len(parse.yielded) :
              /\ Len(parse.yielded[i].frames) >= 1
              /\ \A j \in 1..Len(parse.yielded[i].frames) :
                     Len(parse.yielded[i].frames[j].data) >= 1)
    /\ [][(LineProcessed("/frame") /\ DataOf(parse.current_frame) = <<>>)
              => (FramesOf(parse'.current_file) = FramesOf(parse.current_file)
                  /\ parse'.yielded = parse.yielded)]_vars
    /\ [][(LineProcessed("/file") /\ FramesOf(parse.current_file) = <<>>)
              => parse'.yielded = parse.yielded]_vars
    /\ [][DataOf(parse'.current_frame) \notin {<<>>, DataOf(parse.current_frame)}
              => parse.output_measurements]_vars

\* A file was yielded and, after it, a '/frame' closed a frame whose data were
\* all filtered out: the frame stays out of the open file's frame list.
C5_Witness ==
    /\ Len(parse.yielded) >= 1
    /\ HasKey(parse.last, "type") /\ parse.last.type = "/frame"
    /\ HasKey(parse.current_frame, "data") /\ parse.current_frame.data = <<>>
    /\ HasKey(parse.current_file, "frames") /\ parse.current_file.frames = <<>>
    /\ parse.status = "running"

(***************************************************************************)
(* C1, C10. One archive file through _files_from_index and                 *)
(* _get_measurements.                                                      *)
(***************************************************************************)
\* The data kept in a file entry's frames, in the order of the index.
KeptData(file_entry) == SegmentData(file_entry.frames)
MatEnded(m) == m.pc \in {"returned", "raised"}
\* The record that is the text [text_off, text_off + text_size) of the file.
RecordOf(filename, datum) ==
    [file |-> filename, from |-> datum.text_off, to |-> datum.text_off + datum.text_size]

\* C1: every record _get_measurements yields for a file that _files_from_index
\* yielded is the text [text_off, text_off + text_size) of its datum, the
\* n-th record that of the n-th selected datum, and a materialization that
\* ended has read every selected datum.
C1_RoundTripReadsExactRecords ==
    \A i \in 1..Len(mats) :
        mats[i].client = "legacy" =>
            LET m == mats[i]
                kept == KeptData(m.arg)
            IN  /\ Len(m.records) <= Len(kept)
                /\ \A n \in 1..Len(m.records) :
                       m.records[n] = RecordOf(m.arg.filename, kept[n])
                /\ MatEnded(m) => Len(m.records) = Len(kept)

\* C10: a materialization that ended has yielded one record per datum kept
\* in the frames of its file entry, the n-th record read for the n-th datum.
C10_OneRecordPerKeptDatum ==
    \A i \in 1..Len(mats) :
        (mats[i].client = "legacy" /\ MatEnded(mats[i])) =>
            /\ Len(mats[i].records) = SumSeq([j \in 1..Len(mats[i].arg.frames) |->
                                                 Len(mats[i].arg.frames[j].data)])
            /\ mats[i].k = Len(mats[i].data)

(***************************************************************************)
(* C2, C8. What a FileEntry's get_measurements materializes.               *)
(***************************************************************************)
\* C2: whenever get_measurements of a yielded entry is called, however far
\* the listing has advanced, the generator fetches and yields records of the
\* entry's own file, the one entry.url names.
C2_EntryMaterializesItsOwnFile ==
    \A i \in 1..Len(mats) :
        LET m == mats[i]
            url == entries[m.entry].url
        IN  /\ \A g \in 1..Len(m.gets) : m.gets[g].Key = url.path
            /\ \A n \in 1..Len(m.records) : m.records[n].file = url.path

\* C8: two full materializations of the same FileEntry make the same
\* get_object calls, yield the same records and add the same amounts to
\* num_get_requests and bytes_downloaded.
C8_SameEntryMaterializesTheSameTwice ==
    \A i, j \in 1..Len(mats) :
        (mats[i].entry = mats[j].entry /\ mats[i].pc = "returned" /\ mats[j].pc = "returned")
            => /\ mats[i].gets = mats[j].gets
               /\ mats[i].records = mats[j].records
               /\ mats[i].bytes = mats[j].bytes

(***************************************************************************)
(* C9. Listing pays for the index only; an entry's fetches happen when its *)
(* generator runs.                                                         *)
(***************************************************************************)
\* The date directories whose index the legacy listing has fetched.
VisitedLegacyDirs ==
    IF legacy_gen.page = 0 THEN <<>>
    ELSE Flatten([p \in 1..(legacy_gen.page - 1) |-> LegacyPages[p]])
         \o SubSeq(LegacyPages[legacy_gen.page], 1, legacy_gen.di)
MatsOf(client) == SelectSeq(mats, LAMBDA m : m.client = client)
GetsOf(client) == SumSeq([i \in 1..Len(MatsOf(client)) |-> Len(MatsOf(client)[i].gets)])
BytesOf(client) == SumSeq([i \in 1..Len(MatsOf(client)) |-> MatsOf(client)[i].bytes])

\* C9: a generator get_measurements returned that has not been advanced has
\* fetched nothing; the legacy client's get requests and bytes are those of
\* the indices listed plus those of the segments the advanced generators
\* fetched, the partitioned client's are those of the objects the advanced
\* generators fetched: listing alone never fetches an archive or a
\* measurement object.
C9_FetchCostPaidOnlyWhenConsumed ==
    /\ \A i \in 1..Len(mats) :
           mats[i].pc = "created" =>
               mats[i].gets = <<>> /\ mats[i].bytes = 0 /\ mats[i].records = <<>>
    /\ legacy_client.num_get_requests = Len(VisitedLegacyDirs) + GetsOf("legacy")
    /\ legacy_client.bytes_downloaded =
           SumSeq([d \in 1..Len(VisitedLegacyDirs) |-> IndexContentLength(VisitedLegacyDirs[d])])
           + BytesOf("legacy")
    /\ new_client.num_get_requests = GetsOf("new")
    /\ new_client.bytes_downloaded = BytesOf("new")

\* The listing is over, an entry of each backend was yielded, one generator
\* was made and not advanced, another fetched a segment.
C9_Witness ==
    /\ list_gen = "returned"
    /\ \E i, j \in 1..Len(entries) :
           entries[i].get_measurements = "legacy" /\ entries[j].get_measurements = "new"
    /\ Len(mats) = 2
    /\ mats[1].pc = "created"
    /\ mats[2].pc = "running" /\ Len(mats[2].gets) = 1
    /\ legacy_client.num_get_requests + new_client.num_get_requests = 2

(***************************************************************************)
(* C4. The end-to-end scenario.                                            *)
(***************************************************************************)
\* One legacy index with one file, one matching report that owns two adjacent
\* frames (bytes 0-999 and 1000-1999) of one datum each; nothing else stored.
ScenarioStore ==
    /\ store.new = <<>>
    /\ Len(store.legacy) = 1
    /\ Len(store.legacy[1].files) = 1
    /\ LET frames == store.legacy[1].files[1].frames
       IN  /\ Len(frames) = 2
           /\ \A f \in 1..2 : /\ frames[f].file_size = 1000
                              /\ Len(frames[f].data) = 1
                              /\ frames[f].data[1].kept

\* C4: in the scenario the listing yields exactly one FileEntry, and a full
\* materialization of it makes exactly one ranged get_object, of bytes 0 to
\* 1999, and yields exactly two records.
C4_EndToEndScenario ==
    ScenarioStore =>
        /\ Len(entries) <= 1
        /\ list_gen = "returned" => Len(entries) = 1
        /\ \A i \in 1..Len(mats) :
               /\ mats[i].pc # "raised"
               /\ Len(mats[i].gets) <= 1
               /\ \A g \in 1..Len(mats[i].gets) :
                      mats[i].gets[g] = [Bucket |-> "ooni-data",
                                         Key |-> entries[1].url.path,
                                         Range |-> <<0, 1999>>]
               /\ mats[i].pc = "returned" =>
                      Len(mats[i].gets) = 1 /\ Len(mats[i].records) = 2

C4_Witness ==
    /\ ScenarioStore
    /\ list_gen = "returned"
    /\ Len(entries) = 1
    /\ Len(mats) >= 1
    /\ mats[1].pc = "returned"
    /\ mats[1].gets = <<[Bucket |-> "ooni-data", Key |-> "f1", Range |-> <<0, 1999>>]>>
    /\ Len(mats[1].records) = 2

(***************************************************************************)
(* C7. The order of the entries OoniClient.list_files yields.              *)
(***************************************************************************)
\* C7: every legacy entry comes before every partitioned entry, and the dates
\* of the entries in the order yielded never decrease.
C7_LegacyFirstAndDatesNonDecreasing ==
    \A i, j \in 1..Len(entries) :
        i < j =>
            /\ ~(entries[i].get_measurements = "new" /\ entries[j].get_measurements = "legacy")
            /\ entries[i].date <= entries[j].date

(***************************************************************************)
(* C11. The counters after concurrent materializations.                    *)
(***************************************************************************)
WorkersDone == workers # <<>> /\ \A t \in 1..Len(workers) : workers[t].pc = "done"

\* C11: when all the workers' materializations are complete, num_get_requests
\* is the number of get_object calls they made and bytes_downloaded is the sum
\* of the segment sizes they added.
C11_NoCounterUpdateLost ==
    WorkersDone =>
        /\ legacy_client.num_get_requests =
               SumSeq([t \in 1..Len(workers) |-> workers[t].gets])
        /\ legacy_client.bytes_downloaded =
               SumSeq([t \in 1..Len(workers) |-> workers[t].bytes])

(***************************************************************************)
(* C12. A failure on one date prefix and the entries of later prefixes.    *)
(***************************************************************************)
\* A stored file the index parser yields: a datum of it is of a matching report.
StoredFileIsYielded(f) ==
    \E i \in 1..Len(f.frames) : \E j \in 1..Len(f.frames[i].data) : f.frames[i].data[j].kept

\* C12: when the list_files sequence has ended on the failure to fetch the
\* index of the date prefix legacy_gen.date, the entries of the later date
\* prefixes of the range have been obtained from it (the failure did not cut
\* the range short).
C12_FailureKeepsLaterPrefixes ==
    (list_gen = "raised" /\ legacy_gen.pc = "index_raised") =>
        \A d \in 1..Len(store.legacy) :
            LET dir == store.legacy[d]
            IN  (dir.date > legacy_gen.date /\ dir.date >= req.first_date
                        /\ dir.date <= req.last_date) =>
                    \A k \in 1..Len(dir.files) :
                        StoredFileIsYielded(dir.files[k]) =>
                            \E e \in 1..Len(entries) :
                                entries[e].url.path = dir.files[k].filename

(***************************************************************************)
(* C13. The aggregated counters.                                           *)
(***************************************************************************)
\* C13: the client's three counters start at 0 and no step of the client
\* makes any of them smaller (they are sums over the two backends, changed by
\* the backends' list and fetch operations only, and never reset).
C13_CountersStartAtZeroAndNeverDecrease ==
    /\ num_list_requests = 0 /\ num_get_requests = 0 /\ bytes_downloaded = 0
    /\ [][/\ num_list_requests' >= num_list_requests
          /\ num_get_requests' >= num_get_requests
          /\ bytes_downloaded' >= bytes_downloaded]_vars

(***************************************************************************)
(* C14. The coverage windows of the two backends.                          *)
(***************************************************************************)
\* C14: a backend asked for a range wholly outside its window yields no
\* entry, makes no store request and raises nothing; and no date has both a
\* legacy and a partitioned entry (the windows are disjoint).
C14_OutsideWindowNothingAndWindowsDisjoint ==
    /\ req.first_date > LegacyLastDate =>
           /\ \A e \in 1..Len(entries) : entries[e].get_measurements # "legacy"
           /\ legacy_client = ClientStart
           /\ legacy_gen.pc \in {"start", "returned"}
    /\ req.last_date < NewFirstDate =>
           /\ \A e \in 1..Len(entries) : entries[e].get_measurements # "new"
           /\ new_client = ClientStart
           /\ new_gen.pc \in {"start", "returned"}
    /\ \A i, j \in 1..Len(entries) :
           (entries[i].get_measurements = "legacy" /\ entries[j].get_measurements = "new")
               => entries[i].date # entries[j].date

(***************************************************************************)
(* C15. Decoding a datum whose bytes cannot be read.                       *)
(***************************************************************************)
\* A datum the decoder cannot read as stated: the stream ends before its last
\* byte, or its text_off is below the end of the datum before it.
Unreadable(m, n) ==
    LET data == KeptData(m.arg)
    IN  \/ data[n].text_off + data[n].text_size > m.stream.hi
        \/ n > 1 /\ data[n].text_off < data[n - 1].text_off + data[n - 1].text_size

\* C15: the n-th record yielded is the text of the n-th datum exactly, so no
\* record is yielded for a datum that cannot be read as stated (the
\* materialization ends with an error at it), and a materialization that
\* returns has skipped no datum.
C15_NoRecordForUnreadableDatum ==
    \A i \in 1..Len(mats) :
        mats[i].client = "legacy" =>
            LET m == mats[i]
                data == KeptData(m.arg)
            IN  /\ \A n \in 1..Len(m.records) :
                       /\ ~Unreadable(m, n)
                       /\ m.records[n].from = data[n].text_off
                       /\ m.records[n].to = data[n].text_off + data[n].text_size
                /\ m.pc = "returned" => Len(m.records) = Len(data)

(***************************************************************************)
(* C16. The partitioned backend's entries and their materialization.       *)
(***************************************************************************)
\* C16: every partitioned entry names a stored object <date>/<hour>/<country>/
\* <test type>/<name>.jsonl.gz of the requested country and test type, and a
\* full materialization of it has made exactly one get_object, of the whole
\* object the entry names, has added 1 to num_get_requests and the object's
\* ContentLength to bytes_downloaded, and has yielded the object's lines in order.
C16_PartitionedEntryIsOneWholeObjectGet ==
    /\ \A e \in 1..Len(entries) :
           entries[e].get_measurements = "new" =>
               LET key == entries[e].url.path
               IN  /\ key.ext = ".jsonl.gz"
                   /\ key.hour \in 0..(HoursPerDay - 1)
                   /\ key.country = QueryCountry
                   /\ key.test_type = QueryTestType
                   /\ key.date = entries[e].date
                   /\ \E x \in AllNewObjects(store) : x.key = key
    /\ \A i \in 1..Len(mats) :
           (mats[i].client = "new" /\ mats[i].pc = "returned") =>
               LET url == entries[mats[i].entry].url
                   o == NewObject(store, url.path)
               IN  /\ mats[i].gets = <<[Bucket |-> url.netloc, Key |-> url.path,
                                        Range |-> <<>>]>>
                   /\ mats[i].bytes = o.size
                   /\ mats[i].records = [n \in 1..o.nlines |->
                                            [file |-> url.path, line |-> n]]

(***************************************************************************)
(* C17. Measurement.get.                                                   *)
(***************************************************************************)
\* The value the keys of path lead to from value, or NoResult when a key is
\* missing or the value it is looked up in is not a dict.
RECURSIVE Reached(_, _)
Reached(value, path) ==
    IF path = <<>> THEN <<value>>
    ELSE IF value.t = "dict" /\ Head(path) \in DOMAIN value.v
         THEN Reached(value.v[Head(path)], Tail(path))
         ELSE NoResult

\* C17: get raises nothing; it returns the value the path leads to, and the
\* default when a step's key is missing, a value on the way is null or not a
\* dict, or the value reached is null.
C17_GetFollowsPathOrReturnsDefault ==
    meas # <<>> /\ meas.result # NoResult =>
        LET r == meas.result[1]
            reached == Reached(meas.data, meas.path)
        IN  /\ r.exc = "none"
            /\ r.value = IF reached = NoResult \/ reached = <<JsonNull>>
                         THEN meas.default ELSE reached[1]

\* get was called with a two-key path that leads to a null value.
C17_Witness ==
    /\ meas # <<>>
    /\ meas.result # NoResult
    /\ Len(meas.path) = 2
    /\ Reached(meas.data, meas.path) = <<JsonNull>>
    /\ meas.result[1].value = Missing

(***************************************************************************)
(* C18. InMemoryAsRepository.                                              *)
(***************************************************************************)
\* The positions among the first n add calls of those of kind op under key.
AddsOf(op, key, n) ==
    {i \in 1..n : as_repo.adds[i].op = op /\ as_repo.adds[i].key = key}
LatestAdd(op, key, n) ==
    as_repo.adds[CHOOSE i \in AddsOf(op, key, n) : \A j \in AddsOf(op, key, n) : j <= i]
\* The org an org id stands for after the first n add calls.
ExpectedOrg(o, n) ==
    IF AddsOf("add_org", o, n) = {}
    THEN [id |-> o, name |-> o, country |-> None]
    ELSE [id |-> o, name |-> LatestAdd("add_org", o, n).name, country |-> "Country1"]
ExpectedUnknownName(n) == IF n = 1 THEN "AS1" ELSE "AS999"

\* C18: get_as(n) returns the AS most recently added under n, or the unknown
\* AS with id n and name "AS<n>"; get_org(o) returns the org most recently
\* added under o, or the unknown org with id o; and the org of an AS is its
\* org id resolved against the orgs of the repository when org is read.
C18_RepositoryReturnsLatestOrUnknown ==
    (as_repo # <<>> /\ as_repo.last # NoResult) =>
        LET r == as_repo.last[1]
        IN  /\ r.op = "get_as" =>
                   IF AddsOf("add_as", r.arg, r.at) = {}
                   THEN r.result.id = r.arg /\ r.result.name = ExpectedUnknownName(r.arg)
                   ELSE LET a == LatestAdd("add_as", r.arg, r.at)
                        IN  r.result = [id |-> r.arg, name |-> a.name, org_id |-> a.org_id]
            /\ r.op = "get_org" => r.result = ExpectedOrg(r.arg, r.at)
            /\ r.op = "org" => r.result = ExpectedOrg(r.arg.org_id, r.at)

\* An AS was added, then its org, and the org read from the AS is that org.
C18_Witness ==
    /\ as_repo # <<>>
    /\ as_repo.last # NoResult
    /\ as_repo.last[1].op = "org"
    /\ Len(as_repo.adds) = 2
    /\ as_repo.adds[1].op = "add_as"
    /\ as_repo.adds[2].op = "add_org"
    /\ as_repo.adds[2].key = as_repo.adds[1].org_id
    /\ as_repo.last[1].arg.id = as_repo.adds[1].key
    /\ as_repo.last[1].result.name = as_repo.adds[2].name

(***************************************************************************)
(* C19. Evaluator: control errors and the status of an observation.        *)
(***************************************************************************)
\* The dns entry of the control of a measurement, read off the data.
ControlDnsOf(m) ==
    IF "control" \in DOMAIN m.v["test_keys"].v
    THEN m.v["test_keys"].v["control"].v["dns"].v
    ELSE EmptyDict
\* The control DNS result is a failure: a failure text is there.
ControlIsFailure(m) ==
    /\ "failure" \in DOMAIN ControlDnsOf(m)
    /\ ControlDnsOf(m)["failure"].t = "str"
    /\ ControlDnsOf(m)["failure"].v # <<>>
\* The control DNS result is a success: no failure and some addresses.
ControlIsSuccess(m) ==
    /\ ~ControlIsFailure(m)
    /\ "addrs" \in DOMAIN ControlDnsOf(m)
    /\ ControlDnsOf(m)["addrs"].v # <<>>
\* The controls for a domain among the first n processed.
ControlsFor(domain_name, n) ==
    {m \in {evaluator.controls[i] : i \in 1..n} : hostname(m) = domain_name}
\* A failed control with this status was processed for the domain.
FailureRecorded(domain_name, status, n) ==
    \E m \in ControlsFor(domain_name, n) :
        /\ ControlIsFailure(m)
        /\ make_status(domain_name, ControlDnsOf(m)["failure"].v) = status

\* C19: evaluate(D, S, path) returns OK_MATCHES_CONTROL_ERROR once a control
\* for D that failed with status S was processed, whatever was processed
\* since; for a status other than OK that no failed control for D had, it
\* returns INCONCLUSIVE_BAD_CONTROL when no successful control for D was
\* processed and BAD_STATUS_<status> otherwise.
C19_EvaluateAgainstControls ==
    (evaluator # <<>> /\ evaluator.last # NoResult) =>
        LET r == evaluator.last[1]
        IN  /\ FailureRecorded(r.domain_name, r.status, r.at) =>
                   r.result = <<"OK_MATCHES_CONTROL_ERROR">>
            /\ (r.status # <<"OK">> /\ ~FailureRecorded(r.domain_name, r.status, r.at)) =>
                   r.result =
                       IF \A m \in ControlsFor(r.domain_name, r.at) : ~ControlIsSuccess(m)
                       THEN <<"INCONCLUSIVE_BAD_CONTROL">>
                       ELSE <<"BAD_STATUS_">> \o r.status

(***************************************************************************)
(* C20. The recording flag of the index parser.                            *)
(***************************************************************************)
\* C20: right after a 'report' line the recording flag is set iff the
\* textname of that report matches the query, right after a '/report' line
\* it is clear, and a datum is added to the current frame only if the
\* report line before it names a matching report.
C20_RecordingFlagFollowsReport ==
    /\ []((parse.status = "running" /\ HasKey(parse.last, "type")
             /\ parse.last.type = "report" /\ HasKey(parse.last, "textname"))
          => (parse.output_measurements
                <=> Legacy_filename_matches(parse.last.textname, QueryTestType, QueryCountry)))
    /\ []((parse.status = "running" /\ HasKey(parse.last, "type")
             /\ parse.last.type = "/report")
          => ~parse.output_measurements)
    /\ [][DataOf(parse'.current_frame) \notin {<<>>, DataOf(parse.current_frame)}
              => (/\ parse.report # NoResult
                  /\ Legacy_filename_matches(parse.report[1], QueryTestType, QueryCountry))]_vars

(***************************************************************************)
(* C21. The order of the ranged GETs and the cursor of a segment.          *)
(***************************************************************************)
\* The segments the planning loop builds from the frame fi on, in order.
RECURSIVE PlannedSegments(_, _)
PlannedSegments(frames, fi) ==
    IF fi > Len(frames) THEN <<>>
    ELSE LET s == NextSegment(frames, fi)
         IN  <<s>> \o PlannedSegments(frames, s.fi)
\* The number of data in the first k of these segments.
DataInSegments(segs, k) == SumSeq([j \in 1..k |-> Len(SegmentData(segs[j].segment))])
NonDecreasingTextOff(data) ==
    \A j \in 1..(Len(data) - 1) : data[j].text_off <= data[j + 1].text_off

\* C21: in one materialization of a legacy entry the k-th ranged GET is that
\* of the k-th segment; it is issued when every record of the segments before
\* it has been yielded and leaves bytes_read at 0; and while a segment whose
\* data come in non-decreasing text_off order is decoded, bytes_read never
\* decreases.
C21_SegmentsInOrderAndCursorMonotone ==
    /\ [](\A i \in 1..Len(mats) :
             mats[i].client = "legacy" =>
                LET segs == PlannedSegments(mats[i].arg.frames, 1)
                IN  /\ Len(mats[i].gets) <= Len(segs)
                    /\ \A k \in 1..Len(mats[i].gets) :
                           mats[i].gets[k].Range =
                               <<segs[k].segment_start, segs[k].segment_end - 1>>)
    /\ [][\A i \in 1..Len(mats) :
             (mats[i].client = "legacy" /\ i <= Len(mats')
                /\ Len(mats'[i].gets) = Len(mats[i].gets) + 1)
             => /\ Len(mats[i].records) =
                       DataInSegments(PlannedSegments(mats[i].arg.frames, 1), Len(mats[i].gets))
                /\ mats'[i].bytes_read = 0]_vars
    /\ [][\A i \in 1..Len(mats) :
             (mats[i].client = "legacy" /\ i <= Len(mats')
                /\ Len(mats'[i].gets) = Len(mats[i].gets)
                /\ NonDecreasingTextOff(mats[i].data))
             => mats'[i].bytes_read >= mats[i].bytes_read]_vars

(***************************************************************************)
(* C22. Request accounting when a request fails.                           *)
(***************************************************************************)
\* The get_object calls the materializations of a client have issued.
MatGetCalls(client) ==
    SumSeq([i \in 1..Len(mats) |-> IF mats[i].client = client THEN Len(mats[i].gets) ELSE 0])

\* C22: the legacy client's num_list_requests is the number of list calls it
\* has issued and its num_get_requests the number of get_object calls it has
\* issued, failed calls included; and once a call has failed the listing
\* issues no further call (no retry) and stays ended by the error.
C22_CountersCountIssuedCalls ==
    /\ [](/\ legacy_client.num_list_requests = legacy_gen.list_calls
          /\ legacy_client.num_get_requests = legacy_gen.get_calls + MatGetCalls("legacy"))
    /\ [][list_gen = "raised"
             => /\ list_gen' = "raised"
                /\ legacy_gen'.list_calls = legacy_gen.list_calls
                /\ legacy_gen'.get_calls = legacy_gen.get_calls]_vars

(***************************************************************************)
(* C23. Malformed index lines.                                             *)
(***************************************************************************)
\* The step processes a line that is not valid JSON or has no 'type' field.
UndecodableLineProcessed ==
    parse.status = "running" /\ parse'.n = parse.n + 1 /\ ~HasKey(parse'.last, "type")
\* The step processes a datum or '/frame' line while no frame or no file is open.
MisplacedLineProcessed ==
    /\ parse.status = "running"
    /\ LineProcessed("datum") \/ LineProcessed("/frame")
    /\ ~(parse.frame_open /\ parse.file_open)

\* C23: a line that is not valid JSON, or lacks 'type', or is a datum or
\* '/frame' line with no frame or file open, makes _files_from_index raise;
\* no file is yielded at that line nor after it.
C23_MalformedLineFailsTheParse ==
    /\ [][(UndecodableLineProcessed \/ MisplacedLineProcessed)
              => (parse'.status = "raised" /\ parse'.yielded = parse.yielded)]_vars
    /\ [][parse.status = "raised"
              => (parse'.status = "raised" /\ parse'.yielded = parse.yielded)]_vars

(***************************************************************************)
(* C24. The dates of the entries and the end of a backend's listing.       *)
(***************************************************************************)
EntriesOf(es, client) == SelectSeq(es, LAMBDA e : e.get_measurements = client)

\* C24: every entry lies within [first_date, last_date]; a backend's listing
\* that has met a date prefix after last_date has returned; and a backend's
\* listing that has returned yields no entry and issues no request.
C24_EntriesWithinDatesAndListingEnds ==
    /\ [](\A i \in 1..Len(entries) :
             req.first_date <= entries[i].date /\ entries[i].date <= req.last_date)
    /\ [](/\ legacy_gen.date > req.last_date => legacy_gen.pc = "returned"
          /\ new_gen.date > req.last_date => new_gen.pc = "returned")
    /\ [][legacy_gen.pc = "returned"
             => /\ legacy_gen'.pc = "returned"
                /\ legacy_client' = legacy_client
                /\ EntriesOf(entries', "legacy") = EntriesOf(entries, "legacy")]_vars
    /\ [][new_gen.pc = "returned"
             => /\ new_gen'.pc = "returned"
                /\ new_client' = new_client
                /\ EntriesOf(entries', "new") = EntriesOf(entries, "new")]_vars

\* The legacy listing skipped a stored date before first_date, yielded an
\* entry, and ended at a date prefix after last_date; the listing of the other
\* backend went on and ended the same way after an entry of its own.
C24_Witness ==
    /\ \E i \in 1..Len(store.legacy) : store.legacy[i].date < req.first_date
    /\ legacy_gen.pc = "returned" /\ legacy_gen.date > req.last_date
    /\ new_gen.pc = "returned" /\ new_gen.date > req.last_date
    /\ EntriesOf(entries, "legacy") # <<>>
    /\ EntriesOf(entries, "new") # <<>>

(***************************************************************************)
(* C25. The cost of one full materialization of a legacy entry.            *)
(***************************************************************************)
\* C25: a materialization of a legacy entry that has returned has issued one
\* get_object per segment of the entry's frame list and has added the
\* entry's size, the sum of file_size over its frames, to bytes_downloaded.
C25_FullMaterializationCostsSegmentsAndSize ==
    \A i \in 1..Len(mats) :
        (mats[i].client = "legacy" /\ mats[i].pc = "returned") =>
            LET e == entries[mats[i].entry]
            IN  /\ Len(mats[i].gets) = Len(PlannedSegments(e.own.frames, 1))
                /\ mats[i].bytes = e.size
                /\ e.size = SumSeq([j \in 1..Len(e.own.frames) |-> e.own.frames[j].file_size])

C27_BudgetNeverExceeded ==
    /\ [](sync # <<>> =>
            /\ sync.downloaded_bytes <= data_limit_bytes
            /\ \A t \in 1..Len(sync.threads) :
                   sync.threads[t].pc \in {"raised", "skipped"}
                       => sync.threads[t].entry.name \notin sync.fetched)
    /\ [][\A t \in 1..NumSyncThreads :
             (sync.threads[t].pc = "limit" /\ sync'.threads[t].pc # "limit"
                /\ sync.downloaded_bytes + sync.threads[t].entry.size > data_limit_bytes)
             => sync'.threads[t].pc = "raised"]_vars
    /\ [][\A t \in 1..NumSyncThreads :
             (sync.threads[t].pc = "has" /\ sync'.threads[t].pc # "has"
                /\ sync.threads[t].entry.name \in sync.local)
             => (sync'.threads[t].pc = "skipped"
                 /\ sync'.downloaded_bytes = sync.downloaded_bytes)]_vars

(***************************************************************************)
(* C28. atop_n stops early.                                                *)
(***************************************************************************)
AllItems(pages) == Flatten(pages)
\* The pages that hold the first k items (k >= 1, at most the items there are).
RECURSIVE PagesHolding(_, _, _)
PagesHolding(pages, k, p) ==
    IF p >= Len(pages) \/ Len(Flatten(SubSeq(pages, 1, p))) >= k THEN p
    ELSE PagesHolding(pages, k, p + 1)
\* The page fetches it takes to yield the first n items, or to find that
\* there are fewer.
FetchesNeeded(pages, n) ==
    IF n = 0 THEN 0
    ELSE IF Len(AllItems(pages)) < n THEN Len(pages)
    ELSE PagesHolding(pages, n, 0)

\* C28: atop_n(inner, n) yields the first min(n, length of inner) items of
\* inner in order and then ends; it asks inner for at most n items, and no
\* page is fetched that only the item after the n-th needs.
C28_TopNRequestsAtMostN ==
    topn # <<>> =>
        /\ Len(topn.yielded) <= topn.n
        /\ topn.yielded = SubSeq(AllItems(topn.pages), 1, Len(topn.yielded))
        /\ topn.pc = "returned" =>
               Len(topn.yielded) = Min(topn.n, Len(AllItems(topn.pages)))
        /\ topn.requested <= topn.n
        /\ topn.page <= FetchesNeeded(topn.pages, topn.n)

(***************************************************************************)
(* C29. A consumer that stops early pays for the segments it reached only. *)
(***************************************************************************)
SegmentBytes(s) == s.segment_end - s.segment_start

\* C29: a legacy generator that has yielded the records of its first k
\* segments and is advanced no further has issued k ranged GETs, none for a
\* later segment; a GET is issued only when the records of the segments
\* before it were all yielded; and what the generator added to
\* bytes_downloaded is, at every point, the bytes of the segments whose GET
\* was issued.
C29_StoppedConsumerFetchesNoLaterSegment ==
    \A i \in 1..Len(mats) :
        mats[i].client = "legacy" =>
            LET m == mats[i]
                segs == PlannedSegments(m.arg.frames, 1)
                issued == Len(m.gets)
            IN  /\ issued <= Len(segs)
                /\ m.bytes = SumSeq([g \in 1..issued |-> SegmentBytes(segs[g])])
                /\ issued >= 1 =>
                       /\ Len(m.records) >= DataInSegments(segs, issued - 1)
                       /\ Len(m.records) <= DataInSegments(segs, issued)
                /\ issued = 0 => m.records = <<>>

\* A generator whose file has two segments or more has yielded every record
\* of the first one and was advanced no further: one GET, the bytes of the
\* first segment only.
C29_Witness ==
    \E i \in 1..Len(mats) :
        LET m == mats[i]
        IN  /\ m.client = "legacy" /\ m.pc = "running"
            /\ Len(PlannedSegments(m.arg.frames, 1)) >= 2
            /\ Len(m.gets) = 1
            /\ m.records # <<>> /\ m.k = Len(m.data)
            /\ m.bytes < frame_bytes(m.arg.frames)
            /\ legacy_client.bytes_downloaded
                   < SumSeq([d \in 1..Len(VisitedLegacyDirs) |->
                                IndexContentLength(VisitedLegacyDirs[d])])
                     + frame_bytes(m.arg.frames)

(***************************************************************************)
(* C30. The superseded planner of bucket.py plans what the canonical one   *)
(* plans.                                                                  *)
(***************************************************************************)
\* The Range of the get_object of a segment the canonical planner built
\* (ooni_client.py line 232).
CanonicalRange(s) == <<s.segment_start, s.segment_end - 1>>

\* C30: on every frame list the two planners build the same segments in the
\* same order: the segments either has built so far are each the segment the
\* other builds at that place, with the same frames, segment_start and
\* segment_end and the same Range; both done, the two sequences are equal.
C30_BucketPlannerEquivalent ==
    ("bucket_fi" \in DOMAIN plan) =>
        /\ \A j \in 1..Min(Len(plan.segments), Len(plan.bucket_segments)) :
               /\ plan.segments[j] = plan.bucket_segments[j]
               /\ CanonicalRange(plan.segments[j]) = plan.bucket_ranges[j]
        /\ Len(plan.segments) = Len(plan.bucket_segments) => plan.fi = plan.bucket_fi
        /\ (PlanDone /\ BucketPlanDone) =>
               /\ plan.segments = plan.bucket_segments
               /\ [j \in 1..Len(plan.segments) |-> CanonicalRange(plan.segments[j])]
                      = plan.bucket_ranges

\* Both planners are done with a frame list that has a segment of two frames
\* or more, a frame of size 0 and a second segment.
C30_Witness ==
    /\ "bucket_fi" \in DOMAIN plan
    /\ PlanDone /\ BucketPlanDone
    /\ Len(plan.bucket_segments) >= 2
    /\ \E j \in 1..Len(plan.bucket_segments) : Len(plan.bucket_segments[j].segment) >= 2
    /\ \E f \in 1..Len(plan.frames) : plan.frames[f].file_size = 0
    /\ plan.segments = plan.bucket_segments

(***************************************************************************)
(* Specifications.                                                         *)
(***************************************************************************)
SpecMatchInit == FmInit /\ plan = PlanIdle /\ parse = ParseIdle /\ LibIdle /\ ClientIdle
SpecMatchNext == CallLegacyFilenameMatches \/ CallBucketFilenameMatches
SpecMatch == SpecMatchInit /\ [][SpecMatchNext]_vars

SpecPlanInit == PlanInit /\ fm = FmIdle /\ parse = ParseIdle /\ LibIdle /\ ClientIdle
SpecPlanNext == PlanSegment
SpecPlan == SpecPlanInit /\ [][SpecPlanNext]_vars

SpecParseInit == parse = ParserStart /\ fm = FmIdle /\ plan = PlanIdle /\ LibIdle /\ ClientIdle
SpecParseNext == ParseNextLine \/ ParseEndOfStream
SpecParse == SpecParseInit /\ [][SpecParseNext]_vars

NewMatNext ==
    \/ \E i \in 1..Len(mats) : MatGetObject(i)
    \/ \E i \in 1..Len(mats) : MatYieldLine(i)
    \/ \E i \in 1..Len(mats) : MatNewReturn(i)

NewListNext ==
    \/ NewListStart
    \/ NewFetchPage
    \/ NewNextDir
    \/ NewListHour
    \/ NewHoursEnd
    \/ NewNextContent

\* The whole client: a consumer advances OoniClient.list_files and calls
\* get_measurements of yielded entries, up to MaxMats times, at any moment.
MaxMats == 2
MaxListFrames == 2
MaxListData == 1
MaxObjectLines == 2

Dates == (NewFirstDate - 1)..(LegacyLastDate + 1)

NewObjects ==
    [hour : {0}, country : {QueryCountry}, test_type : {QueryTestType},
     stem : {"a"}, ext : {".jsonl.gz", ".json"}, size : {10}, nlines : 1..MaxObjectLines]

LegacyStores ==
    {<<>>}
    \cup {<<[date |-> LegacyLastDate - 1, files |-> <<f1>>]>> :
              f1 \in ArchiveFiles("f1", {1}, MaxListFrames, MaxListData)}
    \cup {<<[date |-> LegacyLastDate - 1, files |-> <<f1, f2>>]>> :
              f1 \in ArchiveFiles("f1", {1}, MaxListFrames, MaxListData),
              f2 \in ArchiveFiles("f2", {1}, MaxListFrames, MaxListData)}

NewStores ==
    {<<>>}
    \cup {<<[date |-> LegacyLastDate, objects |-> <<o>>]>> : o \in NewObjects}
    \cup {<<[date |-> LegacyLastDate, objects |-> <<o, [o EXCEPT !.stem = "b"]>>]>> :
              o \in NewObjects}

SpecInit ==
    /\ PureIdle
    /\ req = [first_date |-> NewFirstDate - 1, last_date |-> LegacyLastDate + 1,
              max_mats |-> MaxMats]
    /\ store \in [legacy : LegacyStores, new : NewStores]
    /\ legacy_client = ClientStart
    /\ new_client = ClientStart
    /\ legacy_gen = LegacyGenStart
    /\ new_gen = NewGenStart
    /\ list_gen = "created"
    /\ entries = <<>>
    /\ mats = <<>>

Next ==
    \/ ListFilesNext
    \/ LegacyListNext
    \/ NewListNext
    \/ CallGetMeasurements
    \/ LegacyMatNext
    \/ NewMatNext
Spec == SpecInit /\ [][Next]_vars

\* Listing alone, over the date ranges and the stores around the cutover: the
\* consumer calls no get_measurements.
ListLegacyDirs(date, name) ==
    {<<>>}
    \cup {<<[date |-> date, files |-> <<f>>]>> : f \in ArchiveFiles(name, {1}, 1, 1)}
ListNewDirs(date) ==
    {<<>>} \cup {<<[date |-> date, objects |-> <<o>>]>> : o \in {x \in NewObjects : x.nlines = 1}}

SpecListInit ==
    /\ PureIdle
    /\ \E first_date \in Dates, last_date \in Dates :
           /\ first_date <= last_date
           /\ req = [first_date |-> first_date, last_date |-> last_date, max_mats |-> 0]
    /\ \E l1 \in ListLegacyDirs(LegacyLastDate - 2, "f1"),
          l2 \in ListLegacyDirs(LegacyLastDate - 1, "f2"),
          l3 \in ListLegacyDirs(LegacyLastDate, "f3"),
          n1 \in ListNewDirs(NewFirstDate),
          n2 \in ListNewDirs(NewFirstDate + 1),
          n3 \in ListNewDirs(NewFirstDate + 2) :
           store = [legacy |-> l1 \o l2 \o l3, new |-> n1 \o n2 \o n3]
    /\ legacy_client = ClientStart
    /\ new_client = ClientStart
    /\ legacy_gen = LegacyGenStart
    /\ new_gen = NewGenStart
    /\ list_gen = "created"
    /\ entries = <<>>
    /\ mats = <<>>

SpecListNext == ListFilesNext \/ LegacyListNext \/ NewListNext
SpecList == SpecListInit /\ [][SpecListNext]_vars

\* The pool's threads, each materializing the entry of another file.
SpecThreadsInit ==
    /\ fm = FmIdle /\ plan = PlanIdle /\ parse = ParseIdle
    /\ meas = <<>> /\ as_repo = <<>> /\ evaluator = <<>> /\ ToolIdle
    /\ ClientIdle
    /\ workers \in [1..NumWorkers -> {WorkerStart(fs) : fs \in WorkerFrames}]
SpecThreadsNext ==
    \/ \E t \in 1..Len(workers) : WorkerGetObject(t)
    \/ \E t \in 1..Len(workers) : WorkerLoadNum(t)
    \/ \E t \in 1..Len(workers) : WorkerStoreNum(t)
    \/ \E t \in 1..Len(workers) : WorkerLoadBytes(t)
    \/ \E t \in 1..Len(workers) : WorkerStoreBytes(t)
    \/ \E t \in 1..Len(workers) : WorkerReturn(t)
SpecThreads == SpecThreadsInit /\ [][SpecThreadsNext]_vars

\* Listing with store failures.
SpecListFailNext == SpecListNext \/ LegacyPageFails \/ LegacyIndexFails
SpecListFail == SpecListInit /\ [][SpecListFailNext]_vars

\* One materialization of a file entry whose data offsets are arbitrary.
SpecDecodeInit ==
    /\ PureIdle
    /\ req = [first_date |-> 20201019, last_date |-> 20201019, max_mats |-> 1]
    /\ \E f \in DecodeFiles, data \in IndexData :
           /\ store = [legacy |-> <<[date |-> 20201019, files |-> <<f>>]>>, new |-> <<>>]
           /\ legacy_gen = [LegacyGenStart EXCEPT !.pc = "returned", !.date = 20201019,
                                                  !.file_entry = DecodeFileEntry(f, data)]
           /\ entries = <<LegacyFileEntry(DecodeFileEntry(f, data), 20201019)>>
           /\ mats = <<GetMeasurementsGenerator(1, "legacy", DecodeFileEntry(f, data))>>
    /\ legacy_client = ClientStart
    /\ new_client = ClientStart
    /\ new_gen = NewGenStart
    /\ list_gen = "returned"
SpecDecodeNext == LegacyMatNext
SpecDecode == SpecDecodeInit /\ [][SpecDecodeNext]_vars

SpecGetInit ==
    /\ MeasInit /\ fm = FmIdle /\ plan = PlanIdle /\ parse = ParseIdle
    /\ workers = <<>> /\ as_repo = <<>> /\ evaluator = <<>> /\ ToolIdle
    /\ ClientIdle
SpecGetNext == CallMeasurementGet
SpecGet == SpecGetInit /\ [][SpecGetNext]_vars

SpecAsRepoInit ==
    /\ as_repo = AsRepoStart
    /\ fm = FmIdle /\ plan = PlanIdle /\ parse = ParseIdle
    /\ workers = <<>> /\ meas = <<>> /\ evaluator = <<>> /\ ToolIdle
    /\ ClientIdle
SpecAsRepoNext == add_as \/ add_org \/ CallGetAs \/ CallGetOrg \/ ReadOrg
SpecAsRepo == SpecAsRepoInit /\ [][SpecAsRepoNext]_vars

SpecEvaluatorInit ==
    /\ evaluator = EvaluatorStart
    /\ fm = FmIdle /\ plan = PlanIdle /\ parse = ParseIdle
    /\ workers = <<>> /\ meas = <<>> /\ as_repo = <<>> /\ ToolIdle
    /\ ClientIdle
SpecEvaluatorNext == add_control \/ CallEvaluate
SpecEvaluator == SpecEvaluatorInit /\ [][SpecEvaluatorNext]_vars

\* The planning loop is run to its end: each iteration that can be taken is taken.
SpecPlanFair == SpecPlanInit /\ [][SpecPlanNext]_vars /\ WF_vars(PlanSegment)

\* The pool of sync_measurements, one entry to a thread.
SpecSyncInit ==
    /\ SyncInit /\ topn = <<>>
    /\ fm = FmIdle /\ plan = PlanIdle /\ parse = ParseIdle
    /\ workers = <<>> /\ meas = <<>> /\ as_repo = <<>> /\ evaluator = <<>>
    /\ ClientIdle
SpecSyncNext ==
    \/ \E t \in 1..NumSyncThreads : SyncHas(t)
    \/ \E t \in 1..NumSyncThreads : SyncCheckLimit(t)
    \/ \E t \in 1..NumSyncThreads : SyncLoad(t)
    \/ \E t \in 1..NumSyncThreads : SyncStore(t)
    \/ \E t \in 1..NumSyncThreads : SyncSave(t)
SpecSync == SpecSyncInit /\ [][SpecSyncNext]_vars

\* A consumer iterating atop_n to its end.
SpecTopnInit ==
    /\ TopnInit /\ sync = <<>>
    /\ fm = FmIdle /\ plan = PlanIdle /\ parse = ParseIdle
    /\ workers = <<>> /\ meas = <<>> /\ as_repo = <<>> /\ evaluator = <<>>
    /\ ClientIdle
SpecTopnNext == AtopNext
SpecTopn == SpecTopnInit /\ [][SpecTopnNext]_vars

\* The two planners run on one frame list, in any interleaving.
SpecPlanBothInit == PlanBothInit /\ fm = FmIdle /\ parse = ParseIdle /\ LibIdle /\ ClientIdle
SpecPlanBothNext == PlanSegment \/ BucketPlanSegment
SpecPlanBoth == SpecPlanBothInit /\ [][SpecPlanBothNext]_vars

====
